---- MODULE Spec2Model ----
(***************************************************************************)
(* Model of the LBNI controller bridge of RePySPM: the RemoteMessage       *)
(* mailbox (AFMController.write_control / read_control), the waveform      *)
(* operations of Utils and the ramp and move operations of ScanControl     *)
(* built on it, and the ramp of the example script.                        *)
(*                                                                         *)
(* Python values are modelled as follows.  A string is a TLA+ string.  A   *)
(* number passed to a point-count parameter is a record                    *)
(* [type |-> "int" | "float" | "bool", n |-> its integer value].  A list   *)
(* is a sequence; Python index k is position k + 1.  The numbers passed to  *)
(* the ramp and move operations (positions, lengths, speeds, times) are    *)
(* modelled as integers and an f-string renders them with ToString.  Time  *)
(* is counted in tenths of a second.  A float of the FPGA operations       *)
(* (a setpoint or an excitation amplitude, in V) is modelled by the        *)
(* integer number of its thousandths, and is never negative.               *)
(***************************************************************************)
EXTENDS Integers, Sequences, FiniteSets, TLC

VARIABLES
    slot,        \* value of the LabVIEW control "RemoteMessage"
    controls,    \* the other front-panel controls, by control name
    receiverUp,  \* the bridge VI is running
    pending,     \* history: commands written and not yet consumed
    caller,      \* per caller: the frame of its current call
    callers,     \* the callers that exist in this run
    useLock,     \* callers serialize their calls with a process-wide lock
    lockHolder,  \* 0, or the caller holding the lock
    now,         \* the time that has passed, in tenths of a second
    ramp,        \* the Z ramp of the device: "idle", "requested" or "ramping"
    journal,     \* history, when kept: the commands written and those consumed
    regs         \* the registers of the FPGA session, by register name

vars == <<slot, controls, receiverUp, pending, caller, callers, useLock, lockHolder,
          now, ramp, journal, regs>>

(***************************************************************************)
(* Bounds of the model.                                                    *)
(***************************************************************************)
MaxCalls == 3      \* calls of the caller in a run of Spec
MaxWaveCalls == 2  \* calls of the caller in a run of SpecWave
MaxConcCalls == 1  \* calls of each caller in a run of SpecConc
MaxPts == 3      \* largest point count tried as an argument
MaxProcs == 2    \* callers in the concurrent runs
MaxRampCalls == 2   \* calls of the caller in a run of SpecRamp
MaxMoveCalls == 1   \* calls of the caller in a run of SpecMove
MaxProtoCalls == 1  \* runs of the ramp script in a run of SpecProto
MaxZ == 1        \* largest Z position of the device
MaxN == 3        \* largest number of ramp points tried as an argument
MaxSpeed == 1    \* largest scan speed of the device, in seconds per line
MaxTime == 17    \* the clock stops here
MaxFieldCalls == 2  \* calls of the caller in a run of SpecField
MaxLiveCalls == 1   \* calls of the caller in a run of SpecLive
MaxSeqCalls == 2    \* calls of the caller in a run of SpecSeq
MaxFpgaCalls == 1   \* calls of the caller in a run of SpecFPGA
MaxRampTenths == 2  \* longest duration of a linear ramp, in tenths of a second

Procs == 1..MaxProcs

(***************************************************************************)
(* Command strings.                                                        *)
(***************************************************************************)
w_wav == "w_wav:"
r_wav == "r_wav:"
w_sca == "w_sca:"
r_ram == "r_ram:"
w_ram == "w_ram:"
r_sca == "r_sca:"
r_zco == "r_zco:"
r_sco == "r_sco:"

\* utils.py:181 and :194  f"{OHCcommands.w_wav}scanWaveFormCtl:{param}:{value}"
WaveCommand(param, text) == w_wav \o "scanWaveFormCtl:" \o param \o ":" \o text

\* utils.py:157
UpdateFPGACommand == w_wav \o "scanWaveFormCtl:Update FPGA:True"

\* utils.py:204-205
WaveQueryControl == "scanWaveFormCtl"
WaveQueryCommand == r_wav \o WaveQueryControl

\* scancontrol.py:90
ScanStopCommand == w_sca \o "Actions:Stop:True"

\* scancontrol.py:420-423
RampingCommand == r_ram \o "Ramping?"
RampingControl == "Ramping?_"

\* scancontrol.py:71
ScanDownCommand == w_sca \o "Actions:Frame down:True"

\* scancontrol.py:321-345, :375-403  f"{OHCcommands.w_ram}<path>:{value}"
RampCommand(path, text) == w_ram \o path \o ":" \o text

\* scancontrol.py:349, :353, :407, :411
PlayCommand(text) == RampCommand("Actions:Play", text)

\* z_control.get_zposition(): the query of the Z position
ZControl == "Z position"
ZQueryCommand == r_zco \o ZControl

\* scan_parameters: the writes of one scan parameter and the scan speed query
ScanParamCommand(param, text) == w_sca \o "Parameters:" \o param \o ":" \o text
ScanSpeedControl == "Scan speed"
ScanSpeedCommand == r_sca \o ScanSpeedControl

\* utils.py:410
ShiftCommand == w_wav \o "scanWaveFormCtl:Shift:True"

\* scancontrol.py:156-157
ScanningControl == "isScanEnable?"
ScanningCommand == r_sco \o ScanningControl

\* utils.py:620  f"Timeout::{value}"
TimeoutCommand(text) == "Timeout::" \o text

\* str() of a Python int, as an f-string renders it
FormatInt(v) == ToString(v.n)

\* the text an f-string renders for a number
FormatNumber(n) == ToString(n)

\* the text an f-string renders for a Python bool, int or float
FormatValue(v) ==
    CASE v.type = "bool"  -> IF v.n = 1 THEN "True" ELSE "False"
      [] v.type = "float" -> ToString(v.n) \o ".0"
      [] OTHER            -> ToString(v.n)

\* scancontrol.py:213-214: the text of 1e-12
TinyText == "1e-12"

(***************************************************************************)
(* Argument domains.                                                       *)
(***************************************************************************)
PyInt(n)   == [type |-> "int", n |-> n]
PyFloat(n) == [type |-> "float", n |-> n]

PyBool(b)  == [type |-> "bool", n |-> IF b THEN 1 ELSE 0]

PointArgs == {PyInt(n) : n \in 2..MaxPts} \cup {PyFloat(MaxPts)}
TypeArgs  == {"Triangle", "Sine", "Square"}

WaveArgs == [slowN : PointArgs, slowType : TypeArgs, slowroundN : PointArgs,
             fastN : PointArgs, fastType : TypeArgs, fastroundN : PointArgs]

RawWrites == {ScanStopCommand, UpdateFPGACommand}
RawReads  == {<<WaveQueryCommand, WaveQueryControl>>, <<RampingCommand, RampingControl>>}

\* the arguments of the ramp operations
RampLengthArgs ==
    [init : {-1, 1}, length : {2}, N : 2..MaxN, speed_f : {1}, speed_b : {2},
     wait_s : {0}]

\* scancontrol.py:366: the signal used for triggering; the script passes None
TrigSignals == {"None", "Force"}

RampTrigArgs ==
    [init : {-1, 1}, trig_val : {1}, trig_signal : TrigSignals, trig_sig : {">", "<"},
     N : 2..MaxN, speed_f : {1}, speed_b : {2}, wait_s : {0}]

RampAbsoluteArgs ==
    [init : {1}, end : {2}, N : {MaxN}, speed_f : {1}, speed_b : {2}, wait_s : {0}]

\* "Example LBNI -- test ramp array points v2.py":87-96: the arguments of the
\* ramp of the script
ScriptArgs ==
    [init |-> -1, trig_val |-> 1, trig_signal |-> "None", trig_sig |-> ">",
     N |-> MaxN, speed_f |-> 1, speed_b |-> 2, wait_s |-> 0]

\* the arguments of set_xyposition
MoveArgs == [x : {0, 1}, y : {0}, forced : BOOLEAN]

\* the scan speeds the device can report
SpeedValues == 0..MaxSpeed

\* the values passed to a single-field setter, by the kind of its field
FieldArgs(kind) ==
    CASE kind = "points" -> PointArgs
      [] kind = "wave"   -> TypeArgs
      [] kind = "hys"    -> {"Scan", "Sine"}
      [] kind = "bool"   -> {PyBool(TRUE), PyInt(1)}
      [] kind = "int"    -> {PyInt(1), PyFloat(1)}

\* the values passed to set_timeout
TimeoutArgs == {PyInt(-1), PyInt(0), PyFloat(0)}

\* the arguments of the ramp issued among the single-field operations
FieldRampArgs == {a \in RampLengthArgs : a.init = 1 /\ a.N = 2}

\* the operations and arguments of the calls whose termination is checked
LiveCalls ==
    {<<"write_control", [command |-> w]>> : w \in RawWrites}
    \cup {<<"read_control", [command |-> q[1], control_name |-> q[2]]>> : q \in RawReads}
    \cup {<<"set_waveform_params", a>> :
            a \in {x \in WaveArgs : /\ x.slowN = x.fastN /\ x.slowroundN = PyInt(MaxPts)
                                    /\ x.fastroundN = PyInt(MaxPts)
                                    /\ x.slowType = "Triangle" /\ x.fastType = "Sine"}}
    \cup {<<"do_ramp_relative_length", a>> : a \in FieldRampArgs}
    \cup {<<"do_ramp_relative_trig", a>> :
            a \in {x \in RampTrigArgs : x.init = 1 /\ x.N = 2 /\ x.trig_sig = ">"}}
    \cup {<<"set_xyposition", a>> : a \in MoveArgs}

\* the calls of the concurrent callers
ConcWrites == {ScanStopCommand}
ConcReads  == {<<RampingCommand, RampingControl>>}

(***************************************************************************)
(* The receiver: the bridge VI and the front panel it drives.              *)
(***************************************************************************)
\* positions of the fields in the scanWaveFormCtl aggregate (Python index)
WaveIndex(param) ==
    CASE param = "slowWavePts"  -> 0
      [] param = "fastWavePts"  -> 1
      [] param = "slowWaveType" -> 2
      [] param = "fastWaveType" -> 3
      [] param = "slowRoundPts" -> 4
      [] param = "fastRoundPts" -> 5

WaveFields == {"slowWavePts", "fastWavePts", "slowWaveType", "fastWaveType",
               "slowRoundPts", "fastRoundPts"}

IntFields == {"slowWavePts", "fastWavePts", "slowRoundPts", "fastRoundPts"}

\* the values the front panel can hold in a field
FieldValues(param) ==
    IF param \in IntFields THEN 0..(MaxPts + 1) ELSE {"Triangle", "Rounded", "Sine"}

\* the text that denotes value v of a field in a command
FieldText(param, v) == IF param \in IntFields THEN ToString(v) ELSE v

\* the <<field, value>> pairs a command string denotes (none for other commands)
DecodeWave(command) ==
    {fv \in UNION {{<<f, v>> : v \in FieldValues(f)} : f \in WaveFields} :
        command = WaveCommand(fv[1], FieldText(fv[1], fv[2]))}

\* the scan geometry of the device: the text last given to each parameter
ScanGeometryControl == "Parameters"
ScanParams == {"Width", "Height", "Offset X", "Offset Y"}

\* the geometries the device can have before a move
GeometryValues ==
    {[p \in ScanParams |-> IF p \in {"Width", "Height"} THEN "2" ELSE "0"],
     [p \in ScanParams |-> IF p \in {"Width", "Height"} THEN "3" ELSE "1"]}

\* the <<parameter, text>> pairs a command string denotes (none for other
\* commands)
DecodeScan(command) ==
    {pt \in ScanParams \X ({TinyText} \cup {ToString(n) : n \in 0..3}) :
        command = ScanParamCommand(pt[1], pt[2])}

\* the front panel after the bridge has processed the command
Process(ctl, command) ==
    IF DecodeWave(command) # {} THEN
        LET fv == CHOOSE x \in DecodeWave(command) : TRUE
        IN  [ctl EXCEPT ![WaveQueryControl][WaveIndex(fv[1]) + 1] = fv[2]]
    ELSE IF DecodeScan(command) # {} THEN
        LET pt == CHOOSE x \in DecodeScan(command) : TRUE
        IN  [ctl EXCEPT ![ScanGeometryControl][pt[1]] = pt[2]]
    ELSE ctl

InitControls ==
    (WaveQueryControl :> <<MaxPts, MaxPts, "Rounded", "Rounded", MaxPts, MaxPts>>)
    @@ (RampingControl :> FALSE)
    @@ (ZControl :> 0)
    @@ (ScanSpeedControl :> 0)
    @@ (ScanningControl :> FALSE)
    @@ (ScanGeometryControl :> [p \in ScanParams |-> "0"])

\* the ramp of the device after the bridge has processed the command: the
\* rising Play value requests a ramp
RampAfter(r, command) ==
    IF command = PlayCommand("True") /\ r = "idle" THEN "requested" ELSE r

\* utils.py:628, :643: the registers 'fb.p.params', a cluster whose field
\* setPoint the code names (`other` stands for its other fields), and
\* 'lia.exc.dds.amplitude', an integer
FpgaRegisters(setPoint, amplitude) ==
    ("fb.p.params" :> [setPoint |-> setPoint, other |-> 0])
    @@ ("lia.exc.dds.amplitude" :> amplitude)

(***************************************************************************)
(* Frames.                                                                 *)
(***************************************************************************)
NoArgs == [none |-> TRUE]

IdleFrame ==
    [op |-> "none", args |-> NoArgs, ip |-> 0, pc |-> "idle",
     command |-> "", control_name |-> "", message |-> "", response |-> <<>>,
     trace |-> <<>>, log |-> <<>>, outcome |-> "none", ret |-> <<>>,
     ncalls |-> 0, lastSet |-> <<>>,
     writes |-> <<>>, wtimes |-> <<>>, obs |-> <<>>, wake |-> 0,
     lastRamp |-> <<>>,
     local |-> [params |-> <<>>, params_zcontrol |-> <<>>, amplitude |-> 0,
                start_time |-> 0, now |-> 0],
     regwrites |-> <<>>]

\* Python list index
Item(list, k) == list[k + 1]

\* mutants of LoopExit: the loop is left without an empty poll
LoopExitAlways(message) == TRUE

LoopExitAfterPoll(message) == message # "message"

LoopExitOnCommand(message) == message = "" \/ message = "w_sca:Actions:Stop:True"

\* mutant of LoopExit: the loop is also left when the slot holds Play:True
LoopExitOnPulse(message) == message = "" \/ message = "w_ram:Actions:Play:True"

\* mutant of LoopExit: the loop is never left
LoopExitNever(message) == FALSE

\* controller.py:68, :80, :90  `while message != ''` -- the loop is left
LoopExit(message) == message = ""

\* utils.py:178
InvalidPoints(value) == ~(value.type \in {"int", "bool"}) \/ value.n <= 2

\* utils.py:167, :191
valid_values == {"Triangle", "Rounded", "Sine"}

InvalidType(value) == value \notin valid_values

\* mutant of int_params: the dict built in another order
int_params_fast_first(a) ==
    << <<"slowWavePts", a.slowN>>, <<"fastWavePts", a.fastN>>,
       <<"slowRoundPts", a.slowroundN>>, <<"fastRoundPts", a.fastroundN>> >>

\* utils.py:170-175, the dict in insertion order
int_params(a) == << <<"slowWavePts", a.slowN>>, <<"slowRoundPts", a.slowroundN>>,
                    <<"fastWavePts", a.fastN>>, <<"fastRoundPts", a.fastroundN>> >>

\* utils.py:185-188
type_params(a) == << <<"slowWaveType", a.slowType>>, <<"fastWaveType", a.fastType>> >>

\* mutant of WaveOrder: the two wave types taken from each other's index
WaveOrderTypesSwapped(response) ==
    <<Item(response, 0), Item(response, 3), Item(response, 4),
      Item(response, 1), Item(response, 2), Item(response, 5)>>

\* utils.py:211
WaveOrder(response) ==
    <<Item(response, 0), Item(response, 2), Item(response, 4),
      Item(response, 1), Item(response, 3), Item(response, 5)>>

Write(command)      == [kind |-> "write", command |-> command]
Read(command, name) == [kind |-> "read", command |-> command, control_name |-> name]
Raise               == [kind |-> "raise"]
Return0             == [kind |-> "return", value |-> <<>>]
ReturnValue(v)      == [kind |-> "return", value |-> v]
Sleep(ticks)        == [kind |-> "sleep", ticks |-> ticks]

\* the statement at position `at` of the operation, reached by a jump
At(stmt, at) == stmt @@ [at |-> at]

\* mutant of DoRampAbsoluteStmt: the absolute ramps write the Play pulse
DoRampAbsolutePlays(a, i) ==
    CASE i = 1 -> Write(PlayCommand("True"))
      [] i = 2 -> Write(PlayCommand("False"))
      [] OTHER -> Return0

\* scancontrol.py:264-306: the absolute ramps are empty
DoRampAbsoluteStmt(a, i) == Return0

\* mutant of DoRampRelativeLengthStmt: Points is written before Distance
DoRampRelativeLengthPointsFirst(a, i) ==
    CASE i = 1 -> Write(RampCommand("Trigger Source", "Relative Height"))
      [] i = 2 -> Write(RampCommand("Parameters:Start", FormatNumber(a.init)))
      [] i = 3 -> Write(RampCommand("Parameters:Points", FormatNumber(a.N)))
      [] i = 4 -> Write(RampCommand("Parameters:Distance", FormatNumber(a.length)))
      [] i = 5 -> Write(RampCommand("Parameters:Fwd", FormatNumber(a.speed_f)))
      [] i = 6 -> Write(RampCommand("Parameters:Bwd", FormatNumber(a.speed_b)))
      [] i = 7 -> Write(RampCommand("Parameters:Pause", FormatNumber(a.wait_s)))
      [] i = 8 -> Write(PlayCommand("True"))
      [] i = 9 -> Write(PlayCommand("False"))
      [] OTHER -> Return0

\* scancontrol.py:308-357: statement i of do_ramp_relative_length(a)
DoRampRelativeLengthStmt(a, i) ==
    CASE i = 1 -> Write(RampCommand("Trigger Source", "Relative Height"))
      [] i = 2 -> Write(RampCommand("Parameters:Start", FormatNumber(a.init)))
      [] i = 3 -> Write(RampCommand("Parameters:Distance", FormatNumber(a.length)))
      [] i = 4 -> Write(RampCommand("Parameters:Points", FormatNumber(a.N)))
      [] i = 5 -> Write(RampCommand("Parameters:Fwd", FormatNumber(a.speed_f)))
      [] i = 6 -> Write(RampCommand("Parameters:Bwd", FormatNumber(a.speed_b)))
      [] i = 7 -> Write(RampCommand("Parameters:Pause", FormatNumber(a.wait_s)))
      [] i = 8 -> Write(PlayCommand("True"))
      [] i = 9 -> Write(PlayCommand("False"))
      [] OTHER -> Return0

\* z_control.get_zposition(): one query, whose value is returned
GetZPosition == Read(ZQueryCommand, ZControl)

\* scancontrol.py:373: init_pos, from the Z position that was read
InitPos(f) == f.response + f.args.init

\* mutant of DoRampRelativeTrigStmt: a signal other than None is written as
\* the trigger source
DoRampRelativeTrigUsesSignal(f, i) ==
    CASE i = 1  -> GetZPosition
      [] i = 2  -> Write(RampCommand("Trigger Source",
                        IF f.args.trig_signal = "None" THEN "Process Variable"
                        ELSE f.args.trig_signal))
      [] i = 3  -> Write(RampCommand("Trigger sign", f.args.trig_sig))
      [] i = 4  -> Write(RampCommand("Parameters:Start", FormatNumber(InitPos(f))))
      [] i = 5  -> Write(RampCommand("Parameters:Distance", FormatNumber(f.args.trig_val)))
      [] i = 6  -> Write(RampCommand("Parameters:Points", FormatNumber(f.args.N)))
      [] i = 7  -> Write(RampCommand("Parameters:Fwd", FormatNumber(f.args.speed_f)))
      [] i = 8  -> Write(RampCommand("Parameters:Bwd", FormatNumber(f.args.speed_b)))
      [] i = 9  -> Write(RampCommand("Parameters:Pause", FormatNumber(f.args.wait_s)))
      [] i = 10 -> Write(PlayCommand("True"))
      [] i = 11 -> Write(PlayCommand("False"))
      [] OTHER  -> Return0

\* mutant of DoRampRelativeTrigStmt: the pause is written with the backward
\* speed
DoRampRelativeTrigPauseWrong(f, i) ==
    CASE i = 1  -> GetZPosition
      [] i = 2  -> Write(RampCommand("Trigger Source", "Process Variable"))
      [] i = 3  -> Write(RampCommand("Trigger sign", f.args.trig_sig))
      [] i = 4  -> Write(RampCommand("Parameters:Start", FormatNumber(InitPos(f))))
      [] i = 5  -> Write(RampCommand("Parameters:Distance", FormatNumber(f.args.trig_val)))
      [] i = 6  -> Write(RampCommand("Parameters:Points", FormatNumber(f.args.N)))
      [] i = 7  -> Write(RampCommand("Parameters:Fwd", FormatNumber(f.args.speed_f)))
      [] i = 8  -> Write(RampCommand("Parameters:Bwd", FormatNumber(f.args.speed_b)))
      [] i = 9  -> Write(RampCommand("Parameters:Pause", FormatNumber(f.args.speed_b)))
      [] i = 10 -> Write(PlayCommand("True"))
      [] i = 11 -> Write(PlayCommand("False"))
      [] OTHER  -> Return0

\* mutant of DoRampRelativeTrigStmt: the operation waits for the ramp to
\* start and to end before it returns
DoRampRelativeTrigWaits(f, i) ==
    CASE i = 1  -> GetZPosition
      [] i = 2  -> Write(RampCommand("Trigger Source", "Process Variable"))
      [] i = 3  -> Write(RampCommand("Trigger sign", f.args.trig_sig))
      [] i = 4  -> Write(RampCommand("Parameters:Start", FormatNumber(InitPos(f))))
      [] i = 5  -> Write(RampCommand("Parameters:Distance", FormatNumber(f.args.trig_val)))
      [] i = 6  -> Write(RampCommand("Parameters:Points", FormatNumber(f.args.N)))
      [] i = 7  -> Write(RampCommand("Parameters:Fwd", FormatNumber(f.args.speed_f)))
      [] i = 8  -> Write(RampCommand("Parameters:Bwd", FormatNumber(f.args.speed_b)))
      [] i = 9  -> Write(RampCommand("Parameters:Pause", FormatNumber(f.args.wait_s)))
      [] i = 10 -> Write(PlayCommand("True"))
      [] i = 11 -> Write(PlayCommand("False"))
      [] i = 12 -> Read(RampingCommand, RampingControl)
      [] i = 13 -> IF f.response THEN Read(RampingCommand, RampingControl)
                   ELSE At(Read(RampingCommand, RampingControl), 12)
      [] i = 14 -> IF f.response THEN At(Read(RampingCommand, RampingControl), 13)
                   ELSE Return0
      [] OTHER  -> Return0

\* scancontrol.py:359-415: statement i of do_ramp_relative_trig(f.args)
DoRampRelativeTrigStmt(f, i) ==
    CASE i = 1  -> GetZPosition
      [] i = 2  -> Write(RampCommand("Trigger Source", "Process Variable"))
      [] i = 3  -> Write(RampCommand("Trigger sign", f.args.trig_sig))
      [] i = 4  -> Write(RampCommand("Parameters:Start", FormatNumber(InitPos(f))))
      [] i = 5  -> Write(RampCommand("Parameters:Distance", FormatNumber(f.args.trig_val)))
      [] i = 6  -> Write(RampCommand("Parameters:Points", FormatNumber(f.args.N)))
      [] i = 7  -> Write(RampCommand("Parameters:Fwd", FormatNumber(f.args.speed_f)))
      [] i = 8  -> Write(RampCommand("Parameters:Bwd", FormatNumber(f.args.speed_b)))
      [] i = 9  -> Write(RampCommand("Parameters:Pause", FormatNumber(f.args.wait_s)))
      [] i = 10 -> Write(PlayCommand("True"))
      [] i = 11 -> Write(PlayCommand("False"))
      [] OTHER  -> Return0

\* scancontrol.py:417-425
IsRampingStmt(f, i) ==
    IF i = 1 THEN Read(RampingCommand, RampingControl) ELSE ReturnValue(f.response)

\* mutant of SetWaveformParamsStmt: every argument is validated before the
\* first write
SetWaveformParamsValidateFirst(a, i) ==
    IF \/ \E k \in 1..4 : InvalidPoints(int_params(a)[k][2])
       \/ \E k \in 1..2 : InvalidType(type_params(a)[k][2])
    THEN Raise
    ELSE IF i <= 4 THEN Write(WaveCommand(int_params(a)[i][1], FormatInt(int_params(a)[i][2])))
    ELSE IF i <= 6 THEN Write(WaveCommand(type_params(a)[i - 4][1], type_params(a)[i - 4][2]))
    ELSE IF i = 7 THEN Write(UpdateFPGACommand)
    ELSE Return0

\* mutant of SetWaveformParamsStmt: the commit is left out
SetWaveformParamsNoCommit(a, i) ==
    IF i <= 4 THEN
        LET p == int_params(a)[i]
        IN  IF InvalidPoints(p[2]) THEN Raise
            ELSE Write(WaveCommand(p[1], FormatInt(p[2])))
    ELSE IF i <= 6 THEN
        LET p == type_params(a)[i - 4]
        IN  IF InvalidType(p[2]) THEN Raise
            ELSE Write(WaveCommand(p[1], p[2]))
    ELSE Return0

\* utils.py:162-200: statement i of set_waveform_params(a)
SetWaveformParamsStmt(a, i) ==
    IF i <= 4 THEN
        LET p == int_params(a)[i]
        IN  IF InvalidPoints(p[2]) THEN Raise
            ELSE Write(WaveCommand(p[1], FormatInt(p[2])))
    ELSE IF i <= 6 THEN
        LET p == type_params(a)[i - 4]
        IN  IF InvalidType(p[2]) THEN Raise
            ELSE Write(WaveCommand(p[1], p[2]))
    ELSE IF i = 7 THEN Write(UpdateFPGACommand)
    ELSE Return0

\* mutant of GetWaveformParamsStmt: the aggregate is queried a second time
\* and the fields are taken from the second response
GetWaveformParamsTwoQueries(f, i) ==
    IF i <= 2 THEN Read(WaveQueryCommand, WaveQueryControl)
    ELSE ReturnValue(WaveOrder(f.response))

\* utils.py:202-211
GetWaveformParamsStmt(f, i) ==
    IF i = 1 THEN Read(WaveQueryCommand, WaveQueryControl)
    ELSE ReturnValue(WaveOrder(f.response))

\* utils.py:213-422: the field, the kind of value and the commit of each
\* single-field setter
FieldSetter(op) ==
    CASE op = "set_slowwave_N_points" ->
            [param |-> "slowWavePts", kind |-> "points", commit |-> TRUE]
      [] op = "set_slowwave_type" ->
            [param |-> "slowWaveType", kind |-> "wave", commit |-> TRUE]
      [] op = "set_slowwave_roundN_poits" ->
            [param |-> "slowRoundPts", kind |-> "points", commit |-> TRUE]
      [] op = "set_fastwave_N_points" ->
            [param |-> "fastWavePts", kind |-> "points", commit |-> TRUE]
      [] op = "set_fastwave_type" ->
            [param |-> "fastWaveType", kind |-> "wave", commit |-> TRUE]
      [] op = "set_fastwave_roundN_poits" ->
            [param |-> "fastRoundPts", kind |-> "points", commit |-> TRUE]
      [] op = "set_hysX_type" ->
            [param |-> "HysX Source", kind |-> "hys", commit |-> FALSE]
      [] op = "set_hysY_type" ->
            [param |-> "HysY Source", kind |-> "hys", commit |-> FALSE]
      [] op = "set_hys_corr" ->
            [param |-> "Hys Correct", kind |-> "bool", commit |-> FALSE]
      [] op = "set_res_corr" ->
            [param |-> "Resonance", kind |-> "bool", commit |-> FALSE]
      [] op = "set_N_shift" ->
            [param |-> "Percent", kind |-> "int", commit |-> FALSE]

FieldSetters ==
    {"set_slowwave_N_points", "set_slowwave_type", "set_slowwave_roundN_poits",
     "set_fastwave_N_points", "set_fastwave_type", "set_fastwave_roundN_poits",
     "set_hysX_type", "set_hysY_type", "set_hys_corr", "set_res_corr", "set_N_shift"}

\* utils.py:340, :358
hys_valid_values == {"Config", "Scan", "None"}

\* utils.py:215, :238, :342, :377, :416: the test that raises ValueError
InvalidField(kind, value) ==
    CASE kind = "points" -> InvalidPoints(value)
      [] kind = "wave"   -> InvalidType(value)
      [] kind = "hys"    -> value \notin hys_valid_values
      [] kind = "bool"   -> value.type # "bool"
      [] kind = "int"    -> value.type \notin {"int", "bool"}

\* the text of {value} in the command of a single-field setter
FieldArgText(kind, value) ==
    IF kind \in {"wave", "hys"} THEN value ELSE FormatValue(value)

\* mutant of SetFieldStmt: the field is written before the value is validated
SetFieldWritesFirst(f, i) ==
    LET s == FieldSetter(f.op)
        v == f.args.value
    IN  IF i = 1 THEN Write(WaveCommand(s.param, FieldArgText(s.kind, v)))
        ELSE IF i = 2 /\ InvalidField(s.kind, v) THEN Raise
        ELSE IF i = 2 /\ s.commit THEN Write(UpdateFPGACommand)
        ELSE Return0

\* utils.py:213-422: statement i of a single-field setter
SetFieldStmt(f, i) ==
    LET s == FieldSetter(f.op)
        v == f.args.value
    IN  IF i = 1 THEN
            IF InvalidField(s.kind, v) THEN Raise
            ELSE Write(WaveCommand(s.param, FieldArgText(s.kind, v)))
        ELSE IF i = 2 /\ s.commit THEN Write(UpdateFPGACommand)
        ELSE Return0

\* scancontrol.py:60-94, :144-151 and utils.py:154-160, :409-413: the command
\* of each action
ActionCommand(op) ==
    CASE op = "scan_up"       -> w_sca \o "Actions:Frame up:True"
      [] op = "scan_down"     -> ScanDownCommand
      [] op = "scan_bouncing" -> w_sca \o "Actions:Bounce:True"
      [] op = "scan_stop"     -> ScanStopCommand
      [] op = "scan_save_now" -> w_sca \o "Save now:True"
      [] op = "update_waveform_FPGA" -> UpdateFPGACommand
      [] op = "update_shift"  -> ShiftCommand

ActionOps == {"scan_up", "scan_down", "scan_bouncing", "scan_stop", "scan_save_now",
              "update_waveform_FPGA", "update_shift"}

\* the command that takes back the value a command has written
Lowered(command) ==
    IF command = PlayCommand("True") THEN PlayCommand("False")
    ELSE CASE command = w_sca \o "Actions:Frame up:True" -> w_sca \o "Actions:Frame up:False"
           [] command = ScanDownCommand   -> w_sca \o "Actions:Frame down:False"
           [] command = w_sca \o "Actions:Bounce:True" -> w_sca \o "Actions:Bounce:False"
           [] command = ScanStopCommand   -> w_sca \o "Actions:Stop:False"
           [] command = w_sca \o "Save now:True" -> w_sca \o "Save now:False"
           [] command = UpdateFPGACommand -> w_wav \o "scanWaveFormCtl:Update FPGA:False"
           [] command = ShiftCommand      -> w_wav \o "scanWaveFormCtl:Shift:False"

\* mutant of ActionStmt: the action is written as a pulse
ActionPulseStmt(f, i) ==
    CASE i = 1 -> Write(ActionCommand(f.op))
      [] i = 2 -> Write(Lowered(ActionCommand(f.op)))
      [] OTHER -> Return0

\* scancontrol.py:60-94, :144-151 and utils.py:154-160, :409-413: statement i
\* of an action
ActionStmt(f, i) ==
    IF i = 1 THEN Write(ActionCommand(f.op)) ELSE Return0

\* utils.py:611-623: statement i of set_timeout(value)
SetTimeoutStmt(f, i) ==
    IF i = 1 THEN
        IF f.args.value.type \notin {"int", "bool"} \/ ~(0 <= f.args.value.n) THEN Raise
        ELSE Write(TimeoutCommand(FormatValue(f.args.value)))
    ELSE Return0

\* scancontrol.py:153-159
IsScanningStmt(f, i) ==
    IF i = 1 THEN Read(ScanningCommand, ScanningControl) ELSE ReturnValue(f.response)

\* scan_parameters.set_width, set_height, set_offset_x, set_offset_y: one write
SetScanParam(param, text) == Write(ScanParamCommand(param, text))

\* scan_parameters.get_scan_speed(): one query, whose value is returned
GetScanSpeed == Read(ScanSpeedCommand, ScanSpeedControl)

\* mutant of SleepTicks: the line time without the 10 % margin
SleepTicksNoMargin(speed) == 10 * speed

\* scancontrol.py:220: get_scan_speed()*1.1 seconds, in tenths of a second
SleepTicks(speed) == 11 * speed

\* mutant of SetXYPositionStmt: the scan is stopped first even when the move
\* is not forced
SetXYPositionAlwaysStops(f, i) ==
    LET k == i - 1
    IN  CASE k = 0 -> Write(ScanStopCommand)
          [] k = 1 -> SetScanParam("Width", TinyText)
          [] k = 2 -> SetScanParam("Height", TinyText)
          [] k = 3 -> SetScanParam("Offset X", FormatNumber(f.args.x))
          [] k = 4 -> SetScanParam("Offset Y", FormatNumber(f.args.y))
          [] k = 5 -> Write(ScanDownCommand)
          [] k = 6 -> GetScanSpeed
          [] k = 7 -> Sleep(SleepTicks(f.response))
          [] k = 8 -> Write(ScanStopCommand)
          [] OTHER -> Return0

\* mutant of SetXYPositionStmt: the scan is started before the offsets are
\* written
SetXYPositionScansFirst(f, i) ==
    LET k == IF f.args.forced THEN i - 1 ELSE i
    IN  CASE k = 0 -> Write(ScanStopCommand)
          [] k = 1 -> SetScanParam("Width", TinyText)
          [] k = 2 -> SetScanParam("Height", TinyText)
          [] k = 3 -> Write(ScanDownCommand)
          [] k = 4 -> SetScanParam("Offset X", FormatNumber(f.args.x))
          [] k = 5 -> SetScanParam("Offset Y", FormatNumber(f.args.y))
          [] k = 6 -> GetScanSpeed
          [] k = 7 -> Sleep(SleepTicks(f.response))
          [] k = 8 -> Write(ScanStopCommand)
          [] OTHER -> Return0

\* mutant of SetXYPositionStmt: the scan speed is obtained before the
\* geometry is written
SetXYPositionSpeedFirst(f, i) ==
    LET k == IF f.args.forced THEN i - 1 ELSE i
    IN  CASE k = 0 -> Write(ScanStopCommand)
          [] k = 1 -> GetScanSpeed
          [] k = 2 -> SetScanParam("Width", TinyText)
          [] k = 3 -> SetScanParam("Height", TinyText)
          [] k = 4 -> SetScanParam("Offset X", FormatNumber(f.args.x))
          [] k = 5 -> SetScanParam("Offset Y", FormatNumber(f.args.y))
          [] k = 6 -> Write(ScanDownCommand)
          [] k = 7 -> Sleep(SleepTicks(f.response))
          [] k = 8 -> Write(ScanStopCommand)
          [] OTHER -> Return0

\* mutant of SetXYPositionStmt: the width and the height of the scan are
\* written back after the move
SetXYPositionRestores(f, i) ==
    LET k == IF f.args.forced THEN i - 1 ELSE i
    IN  CASE k = 0 -> Write(ScanStopCommand)
          [] k = 1 -> SetScanParam("Width", TinyText)
          [] k = 2 -> SetScanParam("Height", TinyText)
          [] k = 3 -> SetScanParam("Offset X", FormatNumber(f.args.x))
          [] k = 4 -> SetScanParam("Offset Y", FormatNumber(f.args.y))
          [] k = 5 -> Write(ScanDownCommand)
          [] k = 6 -> GetScanSpeed
          [] k = 7 -> Sleep(SleepTicks(f.response))
          [] k = 8 -> Write(ScanStopCommand)
          [] k = 9 -> SetScanParam("Width", "2")
          [] k = 10 -> SetScanParam("Height", "2")
          [] OTHER -> Return0

\* scancontrol.py:201-221: statement i of set_xyposition(x, y, forced)
SetXYPositionStmt(f, i) ==
    LET k == IF f.args.forced THEN i - 1 ELSE i
    IN  CASE k = 0 -> Write(ScanStopCommand)
          [] k = 1 -> SetScanParam("Width", TinyText)
          [] k = 2 -> SetScanParam("Height", TinyText)
          [] k = 3 -> SetScanParam("Offset X", FormatNumber(f.args.x))
          [] k = 4 -> SetScanParam("Offset Y", FormatNumber(f.args.y))
          [] k = 5 -> Write(ScanDownCommand)
          [] k = 6 -> GetScanSpeed
          [] k = 7 -> Sleep(SleepTicks(f.response))
          [] k = 8 -> Write(ScanStopCommand)
          [] OTHER -> Return0

\* mutant of RampScriptStmt: the script gives up waiting for the start after
\* two polls
RampScriptGivesUp(f, i) ==
    CASE i <= 11 -> DoRampRelativeTrigStmt(f, i)
      [] i = 12  -> Read(RampingCommand, RampingControl)
      [] i = 13  -> IF f.response \/ Len(f.obs) >= 2
                    THEN At(Read(RampingCommand, RampingControl), 15)
                    ELSE Sleep(1)
      [] i = 14  -> At(Read(RampingCommand, RampingControl), 12)
      [] i = 15  -> Read(RampingCommand, RampingControl)
      [] i = 16  -> IF f.response THEN Sleep(5) ELSE At(Sleep(10), 18)
      [] i = 17  -> At(Read(RampingCommand, RampingControl), 15)
      [] i = 18  -> Sleep(10)
      [] OTHER   -> Return0

\* mutant of RampScriptStmt: the script does not wait for the ramp to start
RampScriptNoStartWait(f, i) ==
    CASE i <= 11 -> DoRampRelativeTrigStmt(f, i)
      [] i = 12  -> At(Read(RampingCommand, RampingControl), 15)
      [] i = 13  -> IF f.response THEN At(Read(RampingCommand, RampingControl), 15)
                    ELSE Sleep(1)
      [] i = 14  -> At(Read(RampingCommand, RampingControl), 12)
      [] i = 15  -> Read(RampingCommand, RampingControl)
      [] i = 16  -> IF f.response THEN Sleep(5) ELSE At(Sleep(10), 18)
      [] i = 17  -> At(Read(RampingCommand, RampingControl), 15)
      [] i = 18  -> Sleep(10)
      [] OTHER   -> Return0

\* "Example LBNI -- test ramp array points v2.py":87-108: statement i of one
\* ramp of the script.  Statements 1-11 are the call of do_ramp_relative_trig
\* (87-96), 12-14 the loop `while not is_ramping()` with its sleep of 0.1 s
\* (98-101), 15-17 the loop `while is_ramping()` with its sleep of 0.5 s
\* (103-106), 18 the sleep of 1 s (108).
RampScriptStmt(f, i) ==
    CASE i <= 11 -> DoRampRelativeTrigStmt(f, i)
      [] i = 12  -> Read(RampingCommand, RampingControl)
      [] i = 13  -> IF f.response THEN At(Read(RampingCommand, RampingControl), 15)
                    ELSE Sleep(1)
      [] i = 14  -> At(Read(RampingCommand, RampingControl), 12)
      [] i = 15  -> Read(RampingCommand, RampingControl)
      [] i = 16  -> IF f.response THEN Sleep(5) ELSE At(Sleep(10), 18)
      [] i = 17  -> At(Read(RampingCommand, RampingControl), 15)
      [] i = 18  -> Sleep(10)
      [] OTHER   -> Return0

\* utils.py:627, :630: scaling_factor * float(set_point_val), with 0.1
ScaleSetpoint(set_point_val) == set_point_val \div 10

\* utils.py:641-643: int(scaling_factor * amplitude_val), with 32768 / 10.0
ScaleAmplitude(amplitude_val) == (32768 * amplitude_val) \div 10000

\* a statement on the FPGA session or on the clock: registers[name].read()
\* into the local x, registers[name].write(x), or x = time.perf_counter()
RegStmt(reg, name, x) == [kind |-> "reg", reg |-> reg, name |-> name, x |-> x]

\* mutant of SetSetpointFPGAStmt: the cluster written is built afresh
SetSetpointFPGAFresh(f, set_point_val, i) ==
    CASE i = 1 -> RegStmt("read", "fb.p.params", "params")
      [] i = 2 -> RegStmt("write", "fb.p.params",
                          [setPoint |-> ScaleSetpoint(set_point_val), other |-> 0])
      [] OTHER -> Return0

\* mutant of SetSetpointFPGAStmt: the amplitude register is written instead
SetSetpointFPGAWrongRegister(f, set_point_val, i) ==
    CASE i = 1 -> RegStmt("read", "fb.p.params", "params")
      [] i = 2 -> RegStmt("write", "lia.exc.dds.amplitude",
                          ScaleSetpoint(set_point_val))
      [] OTHER -> Return0

\* utils.py:625-633: statement i of set_setpoint_FPGA(set_point_val)
SetSetpointFPGAStmt(f, set_point_val, i) ==
    CASE i = 1 -> RegStmt("read", "fb.p.params", "params")
      [] i = 2 -> RegStmt("write", "fb.p.params",
                          [f.local.params EXCEPT
                              !.setPoint = ScaleSetpoint(set_point_val)])
      [] OTHER -> Return0

\* afmmode.am.set_exc_amplitude(value) and z_control.set_setpoint(value):
\* one write of the mailbox each
ExcAmplitudeCommand(text) == "w_exc:Amplitude:" \o text

SetpointCommand(text) == "w_zco:Setpoint:" \o text

\* mutant of LinearRampStmt: the final values are not written after the loop
LinearRampNoFinal(f, i) ==
    LET a == f.args
        l == f.local
        duration == a.duration_ms \div 100
        elapsed == l.now - l.start_time
        init_setpoint == l.params_zcontrol.setPoint * 10
        init_exc_amplitude == (l.amplitude * 10000) \div 32768
        current_setpoint ==
            init_setpoint + ((a.final_setpoint - init_setpoint) * elapsed) \div duration
        current_exc_amplitude ==
            init_exc_amplitude
            + ((a.final_exc_amplitude - init_exc_amplitude) * elapsed) \div duration
    IN  CASE i = 1 -> RegStmt("clock", "", "start_time")
          [] i = 2 -> RegStmt("read", "fb.p.params", "params_zcontrol")
          [] i = 3 -> RegStmt("read", "lia.exc.dds.amplitude", "amplitude")
          [] i = 4 -> RegStmt("clock", "", "now")
          [] i = 5 -> IF elapsed >= duration
                      THEN At(Write(ExcAmplitudeCommand(
                                  FormatNumber(a.final_exc_amplitude))), 12)
                      ELSE SetSetpointFPGAStmt(f, current_setpoint, 1)
          [] i = 6 -> SetSetpointFPGAStmt(f, current_setpoint, 2)
          [] i = 7 -> RegStmt("write", "lia.exc.dds.amplitude",
                              ScaleAmplitude(current_exc_amplitude))
          [] i = 8 -> At(RegStmt("clock", "", "now"), 4)
          [] i = 13 -> Write(SetpointCommand(FormatNumber(a.final_setpoint)))
          [] OTHER -> Return0

\* mutant of LinearRampStmt: the registers get their final values after the
\* updates through the mailbox
LinearRampMailboxFirst(f, i) ==
    LET a == f.args
        l == f.local
        duration == a.duration_ms \div 100
        elapsed == l.now - l.start_time
        init_setpoint == l.params_zcontrol.setPoint * 10
        init_exc_amplitude == (l.amplitude * 10000) \div 32768
        current_setpoint ==
            init_setpoint + ((a.final_setpoint - init_setpoint) * elapsed) \div duration
        current_exc_amplitude ==
            init_exc_amplitude
            + ((a.final_exc_amplitude - init_exc_amplitude) * elapsed) \div duration
    IN  CASE i = 1 -> RegStmt("clock", "", "start_time")
          [] i = 2 -> RegStmt("read", "fb.p.params", "params_zcontrol")
          [] i = 3 -> RegStmt("read", "lia.exc.dds.amplitude", "amplitude")
          [] i = 4 -> RegStmt("clock", "", "now")
          [] i = 5 -> IF elapsed >= duration
                      THEN At(Write(ExcAmplitudeCommand(
                                  FormatNumber(a.final_exc_amplitude))), 9)
                      ELSE SetSetpointFPGAStmt(f, current_setpoint, 1)
          [] i = 6 -> SetSetpointFPGAStmt(f, current_setpoint, 2)
          [] i = 7 -> RegStmt("write", "lia.exc.dds.amplitude",
                              ScaleAmplitude(current_exc_amplitude))
          [] i = 8 -> At(RegStmt("clock", "", "now"), 4)
          [] i = 9 -> Write(ExcAmplitudeCommand(FormatNumber(a.final_exc_amplitude)))
          [] i = 10 -> Write(SetpointCommand(FormatNumber(a.final_setpoint)))
          [] i \in {11, 12} -> SetSetpointFPGAStmt(f, a.final_setpoint, i - 10)
          [] i = 13 -> RegStmt("write", "lia.exc.dds.amplitude",
                               ScaleAmplitude(a.final_exc_amplitude))
          [] OTHER -> Return0

\* utils.py:648-689: statement i of linear_ramp_setpoint_exc_amplitude(
\* final_setpoint, final_exc_amplitude, duration_ms).  Statement 1 is line
\* 658, 2-3 lines 661-663, 4 the clock reading of line 666, 5-6 the call of
\* line 678 (or, once elapsed >= duration, the jump to 9), 7 line 679, 8
\* the jump back to the head of the loop, 9-10 line 682, 11 line 683, 12
\* line 686, 13 line 687.
LinearRampStmt(f, i) ==
    LET a == f.args
        l == f.local
        duration == a.duration_ms \div 100
        elapsed == l.now - l.start_time
        init_setpoint == l.params_zcontrol.setPoint * 10
        init_exc_amplitude == (l.amplitude * 10000) \div 32768
        current_setpoint ==
            init_setpoint + ((a.final_setpoint - init_setpoint) * elapsed) \div duration
        current_exc_amplitude ==
            init_exc_amplitude
            + ((a.final_exc_amplitude - init_exc_amplitude) * elapsed) \div duration
    IN  CASE i = 1 -> RegStmt("clock", "", "start_time")
          [] i = 2 -> RegStmt("read", "fb.p.params", "params_zcontrol")
          [] i = 3 -> RegStmt("read", "lia.exc.dds.amplitude", "amplitude")
          [] i = 4 -> RegStmt("clock", "", "now")
          [] i = 5 -> IF elapsed >= duration
                      THEN At(SetSetpointFPGAStmt(f, a.final_setpoint, 1), 9)
                      ELSE SetSetpointFPGAStmt(f, current_setpoint, 1)
          [] i = 6 -> SetSetpointFPGAStmt(f, current_setpoint, 2)
          [] i = 7 -> RegStmt("write", "lia.exc.dds.amplitude",
                              ScaleAmplitude(current_exc_amplitude))
          [] i = 8 -> At(RegStmt("clock", "", "now"), 4)
          [] i \in {9, 10} -> SetSetpointFPGAStmt(f, a.final_setpoint, i - 8)
          [] i = 11 -> RegStmt("write", "lia.exc.dds.amplitude",
                               ScaleAmplitude(a.final_exc_amplitude))
          [] i = 12 -> Write(ExcAmplitudeCommand(FormatNumber(a.final_exc_amplitude)))
          [] i = 13 -> Write(SetpointCommand(FormatNumber(a.final_setpoint)))
          [] OTHER -> Return0

\* statement i of the operation of frame f
Stmt(f, i) ==
    CASE f.op = "write_control" ->
            IF i = 1 THEN Write(f.args.command) ELSE Return0
      [] f.op = "read_control" ->
            IF i = 1 THEN Read(f.args.command, f.args.control_name)
            ELSE ReturnValue(f.response)
      [] f.op = "set_waveform_params" -> SetWaveformParamsStmt(f.args, i)
      [] f.op = "get_waveform_params" -> GetWaveformParamsStmt(f, i)
      [] f.op \in {"do_ramp_absolute", "do_ramp_absolute_length",
                   "do_ramp_absolute_trig"} -> DoRampAbsoluteStmt(f.args, i)
      [] f.op = "do_ramp_relative_length" -> DoRampRelativeLengthStmt(f.args, i)
      [] f.op = "do_ramp_relative_trig" -> DoRampRelativeTrigStmt(f, i)
      [] f.op = "is_ramping" -> IsRampingStmt(f, i)
      [] f.op = "set_xyposition" -> SetXYPositionStmt(f, i)
      [] f.op = "ramp_script" -> RampScriptStmt(f, i)
      [] f.op \in FieldSetters -> SetFieldStmt(f, i)
      [] f.op \in ActionOps -> ActionStmt(f, i)
      [] f.op = "set_timeout" -> SetTimeoutStmt(f, i)
      [] f.op = "is_scanning" -> IsScanningStmt(f, i)
      [] f.op = "set_setpoint_FPGA" -> SetSetpointFPGAStmt(f, f.args.set_point_val, i)
      [] f.op = "linear_ramp_setpoint_exc_amplitude" -> LinearRampStmt(f, i)

\* the arguments of a set_waveform_params call that has just returned normally
SetArgsOf(f) ==
    IF f.op = "set_waveform_params"
    THEN <<f.args.slowN.n, f.args.slowType, f.args.slowroundN.n,
           f.args.fastN.n, f.args.fastType, f.args.fastroundN.n>>
    ELSE <<>>

\* the arguments and the writes of a do_ramp_relative_length call that has
\* just returned
RampOf(f) ==
    IF f.op = "do_ramp_relative_length" /\ f.outcome = "returned"
    THEN <<[args |-> f.args, writes |-> f.writes]>>
    ELSE <<>>

\* the frame when control reaches statement i, or the statement that
\* statement i jumps to
Goto(f, i) ==
    LET s == Stmt(f, i)
        j == IF "at" \in DOMAIN s THEN s.at ELSE i
    IN  CASE s.kind = "write" ->
                [f EXCEPT !.ip = j, !.pc = "w_get", !.command = s.command,
                          !.message = "message", !.log = <<>>]
          [] s.kind = "read" ->
                [f EXCEPT !.ip = j, !.pc = "r_get1", !.command = s.command,
                          !.control_name = s.control_name,
                          !.message = "message", !.log = <<>>]
          [] s.kind = "sleep" ->
                [f EXCEPT !.ip = j, !.pc = "sleep", !.wake = now + s.ticks]
          [] s.kind = "reg" ->
                [f EXCEPT !.ip = j, !.pc = "reg"]
          [] s.kind = "raise" ->
                [f EXCEPT !.ip = j, !.pc = "idle", !.outcome = "ValueError"]
          [] s.kind = "return" ->
                [f EXCEPT !.ip = j, !.pc = "idle", !.outcome = "returned",
                          !.ret = s.value]

\* mutant of WriteControlReturn: write_control waits for the slot to clear
WriteControlWaits(f) == [f EXCEPT !.pc = "w_get", !.message = "message"]

\* controller.py:75-76: write_control has written and returns 0
WriteControlReturn(f) == Goto(f, f.ip + 1)

\* mutant of ReadControlAfterSet: the query is sent again until the slot is
\* seen empty
ReadControlResends(f) == [f EXCEPT !.pc = "r_get1", !.message = "message"]

\* mutant of ReadControlAfterSet: the second wait is left out
ReadControlNoSecondWait(f) == [f EXCEPT !.pc = "r_read"]

\* controller.py:87-89: read_control has written and starts its second wait
ReadControlAfterSet(f) == [f EXCEPT !.pc = "r_get2", !.message = "message"]

(***************************************************************************)
(* Actions.                                                                *)
(***************************************************************************)
Free(c) == ~useLock \/ lockHolder = c

NewFrame(f, op, args) ==
    Goto([IdleFrame EXCEPT !.op = op, !.args = args, !.outcome = "running",
                           !.ncalls = f.ncalls + 1,
                           !.lastSet = IF f.outcome = "returned" THEN SetArgsOf(f)
                                       ELSE <<>>,
                           !.lastRamp = RampOf(f)], 1)

\* mutant of StartCall: a call is started without the lock
StartCallUnlocked(c, op, args, limit) ==
    /\ c \in callers
    /\ caller[c].pc = "idle"
    /\ caller[c].ncalls < limit
    /\ caller' = [caller EXCEPT ![c] = NewFrame(caller[c], op, args)]
    /\ UNCHANGED <<slot, controls, receiverUp, pending, callers, useLock, lockHolder, now, ramp, journal, regs>>

StartCall(c, op, args, limit) ==
    /\ c \in callers
    /\ caller[c].pc = "idle"
    /\ caller[c].ncalls < limit
    /\ Free(c)
    /\ caller' = [caller EXCEPT ![c] = NewFrame(caller[c], op, args)]
    /\ UNCHANGED <<slot, controls, receiverUp, pending, callers, useLock, lockHolder, now, ramp, journal, regs>>

StartWriteControl(c, commands, limit) ==
    \E command \in commands :
        StartCall(c, "write_control", [command |-> command], limit)

StartReadControl(c, queries, limit) ==
    \E q \in queries :
        StartCall(c, "read_control", [command |-> q[1], control_name |-> q[2]], limit)

StartSetWaveformParams(c, limit) ==
    \E a \in WaveArgs : StartCall(c, "set_waveform_params", a, limit)

StartGetWaveformParams(c, limit) ==
    StartCall(c, "get_waveform_params", NoArgs, limit)

StartDoRampAbsolute(c, limit) ==
    \E op \in {"do_ramp_absolute", "do_ramp_absolute_length", "do_ramp_absolute_trig"} :
        \E a \in RampAbsoluteArgs : StartCall(c, op, a, limit)

StartDoRampRelativeLength(c, limit) ==
    \E a \in RampLengthArgs : StartCall(c, "do_ramp_relative_length", a, limit)

StartDoRampRelativeTrig(c, limit) ==
    \E a \in RampTrigArgs : StartCall(c, "do_ramp_relative_trig", a, limit)

StartIsRamping(c, limit) == StartCall(c, "is_ramping", NoArgs, limit)

StartSetXYPosition(c, limit) ==
    \E a \in MoveArgs : StartCall(c, "set_xyposition", a, limit)

StartRampScript(c, limit) == StartCall(c, "ramp_script", ScriptArgs, limit)

StartSetField(c, limit) ==
    \E op \in FieldSetters :
        \E v \in FieldArgs(FieldSetter(op).kind) : StartCall(c, op, [value |-> v], limit)

StartAction(c, limit) == \E op \in ActionOps : StartCall(c, op, NoArgs, limit)

StartSetTimeout(c, limit) ==
    \E v \in TimeoutArgs : StartCall(c, "set_timeout", [value |-> v], limit)

StartIsScanning(c, limit) == StartCall(c, "is_scanning", NoArgs, limit)

StartFieldRamp(c, limit) ==
    \E a \in FieldRampArgs : StartCall(c, "do_ramp_relative_length", a, limit)

\* the histories of the mailbox: nothing is recorded unless the run keeps them
NoJournal == [on |-> FALSE, sent |-> <<>>, consumed |-> <<>>]

KeptJournal == [NoJournal EXCEPT !.on = TRUE]

Sent(j, command) == IF j.on THEN [j EXCEPT !.sent = Append(@, command)] ELSE j

Consumed(j, command) == IF j.on THEN [j EXCEPT !.consumed = Append(@, command)] ELSE j

\* controller.py:68-71, :80-83, :90-93: one iteration of a wait loop
PollTo(c, here, next) ==
    /\ c \in callers
    /\ caller[c].pc = here
    /\ LET m == slot
       IN  caller' = [caller EXCEPT ![c] =
               IF LoopExit(m)
               THEN [@ EXCEPT !.message = m, !.pc = next, !.log = Append(@, "empty")]
               ELSE [@ EXCEPT !.message = m]]
    /\ UNCHANGED <<slot, controls, receiverUp, pending, callers, useLock, lockHolder, now, ramp, journal, regs>>

WritePoll(c)  == PollTo(c, "w_get", "w_set")
ReadPoll1(c)  == PollTo(c, "r_get1", "r_set")
ReadPoll2(c)  == PollTo(c, "r_get2", "r_read")

\* controller.py:73-76
WriteSet(c) ==
    /\ c \in callers
    /\ caller[c].pc = "w_set"
    /\ slot' = caller[c].command
    /\ pending' = Append(pending, caller[c].command)
    /\ caller' = [caller EXCEPT ![c] =
            WriteControlReturn([@ EXCEPT !.trace = Append(@, caller[c].command),
                                         !.writes = Append(@, caller[c].command),
                                         !.wtimes = Append(@, now),
                                         !.log = Append(@, "write")])]
    /\ journal' = Sent(journal, caller[c].command)
    /\ UNCHANGED <<controls, receiverUp, callers, useLock, lockHolder, now, ramp, regs>>

\* controller.py:85-89
ReadSet(c) ==
    /\ c \in callers
    /\ caller[c].pc = "r_set"
    /\ slot' = caller[c].command
    /\ pending' = Append(pending, caller[c].command)
    /\ caller' = [caller EXCEPT ![c] =
            ReadControlAfterSet([@ EXCEPT !.trace = Append(@, caller[c].command),
                                          !.log = Append(@, "write")])]
    /\ journal' = Sent(journal, caller[c].command)
    /\ UNCHANGED <<controls, receiverUp, callers, useLock, lockHolder, now, ramp, regs>>

\* controller.py:95
ReadGet(c) ==
    /\ c \in callers
    /\ caller[c].pc = "r_read"
    /\ caller' = [caller EXCEPT ![c] =
            Goto([@ EXCEPT !.response = controls[caller[c].control_name],
                           !.obs = IF caller[c].control_name = RampingControl
                                   THEN Append(@, controls[RampingControl]) ELSE @,
                           !.log = Append(@, "read")], caller[c].ip + 1)]
    /\ UNCHANGED <<slot, controls, receiverUp, pending, callers, useLock, lockHolder, now, ramp, journal, regs>>

\* the bridge consumes the command in the slot and clears the slot
Receive ==
    /\ receiverUp
    /\ slot # ""
    /\ controls' = Process(controls, slot)
    /\ slot' = ""
    /\ pending' = SubSeq(pending, 1, Len(pending) - 1)
    /\ ramp' = RampAfter(ramp, slot)
    /\ journal' = Consumed(journal, slot)
    /\ UNCHANGED <<receiverUp, caller, callers, useLock, lockHolder, now, regs>>

\* the device starts the ramp that was requested
RampStart ==
    /\ ramp = "requested"
    /\ ramp' = "ramping"
    /\ controls' = [controls EXCEPT ![RampingControl] = TRUE]
    /\ UNCHANGED <<slot, receiverUp, pending, caller, callers, useLock, lockHolder, now, journal, regs>>

\* the ramp of the device ends
RampEnd ==
    /\ ramp = "ramping"
    /\ ramp' = "idle"
    /\ controls' = [controls EXCEPT ![RampingControl] = FALSE]
    /\ UNCHANGED <<slot, receiverUp, pending, caller, callers, useLock, lockHolder, now, journal, regs>>

\* the front panel changes under the caller: the slow wave type takes another
\* of its values
PanelEdit ==
    \E v \in FieldValues("slowWaveType") :
        /\ v # Item(controls[WaveQueryControl], WaveIndex("slowWaveType"))
        /\ controls' = [controls EXCEPT
                ![WaveQueryControl][WaveIndex("slowWaveType") + 1] = v]
        /\ UNCHANGED <<slot, receiverUp, pending, caller, callers, useLock, lockHolder,
                       now, ramp, journal, regs>>

\* time passes while a caller sleeps; the time that the other steps take is
\* not counted
Tick(horizon) ==
    /\ \E c \in callers : caller[c].pc = "sleep"
    /\ now < horizon
    /\ now' = now + 1
    /\ UNCHANGED <<slot, controls, receiverUp, pending, caller, callers, useLock,
                   lockHolder, ramp, journal, regs>>

\* scancontrol.py:220 and the sleeps of the script: time.sleep returns when
\* the time asked for has passed
SleepDone(c) ==
    /\ c \in callers
    /\ caller[c].pc = "sleep"
    /\ now >= caller[c].wake
    /\ caller' = [caller EXCEPT ![c] = Goto(@, caller[c].ip + 1)]
    /\ UNCHANGED <<slot, controls, receiverUp, pending, callers, useLock, lockHolder,
                   now, ramp, journal, regs>>

\* the bridge VI stops running
ReceiverStop ==
    /\ receiverUp
    /\ receiverUp' = FALSE
    /\ UNCHANGED <<slot, controls, pending, caller, callers, useLock, lockHolder, now, ramp, journal, regs>>

\* a caller takes the process-wide lock for one call
Acquire(c) ==
    /\ c \in callers
    /\ useLock
    /\ lockHolder = 0
    /\ caller[c].pc = "idle"
    /\ caller[c].ncalls < MaxConcCalls
    /\ lockHolder' = c
    /\ UNCHANGED <<slot, controls, receiverUp, pending, caller, callers, useLock, now, ramp, journal, regs>>

Release(c) ==
    /\ c \in callers
    /\ useLock
    /\ lockHolder = c
    /\ caller[c].pc = "idle"
    /\ caller[c].outcome # "none"
    /\ lockHolder' = 0
    /\ UNCHANGED <<slot, controls, receiverUp, pending, caller, callers, useLock, now, ramp, journal, regs>>

(***************************************************************************)
(* Specifications.                                                         *)
(***************************************************************************)
InitState(ctl, j) ==
    /\ journal = j
    /\ slot = ""
    /\ controls = ctl
    /\ receiverUp = TRUE
    /\ pending = <<>>
    /\ caller = [c \in Procs |-> IdleFrame]
    /\ lockHolder = 0
    /\ now = 0
    /\ ramp = "idle"

InitDevice(ctl) == InitState(ctl, NoJournal) /\ regs = FpgaRegisters(0, 0)

InitCommon == InitDevice(InitControls)

\* one caller
Init ==
    /\ InitCommon
    /\ callers = {1}
    /\ useLock = FALSE

Next ==
    \/ \E c \in Procs : StartWriteControl(c, RawWrites, MaxCalls)
    \/ \E c \in Procs : StartReadControl(c, RawReads, MaxCalls)
    \/ \E c \in Procs : WritePoll(c)
    \/ \E c \in Procs : WriteSet(c)
    \/ \E c \in Procs : ReadPoll1(c)
    \/ \E c \in Procs : ReadSet(c)
    \/ \E c \in Procs : ReadPoll2(c)
    \/ \E c \in Procs : ReadGet(c)
    \/ Receive
    \/ ReceiverStop

Spec == Init /\ [][Next]_vars

\* one caller that uses the waveform operations; the receiver keeps running
NextWave ==
    \/ \E c \in Procs : StartWriteControl(c, RawWrites, MaxWaveCalls)
    \/ \E c \in Procs : StartSetWaveformParams(c, MaxWaveCalls)
    \/ \E c \in Procs : StartGetWaveformParams(c, MaxWaveCalls)
    \/ \E c \in Procs : WritePoll(c)
    \/ \E c \in Procs : WriteSet(c)
    \/ \E c \in Procs : ReadPoll1(c)
    \/ \E c \in Procs : ReadSet(c)
    \/ \E c \in Procs : ReadPoll2(c)
    \/ \E c \in Procs : ReadGet(c)
    \/ Receive

SpecWave == Init /\ [][NextWave]_vars

\* several callers, with or without a process-wide lock around each call
InitConc ==
    /\ InitCommon
    /\ callers = Procs
    /\ useLock \in BOOLEAN

NextConc ==
    \/ \E c \in Procs : StartWriteControl(c, ConcWrites, MaxConcCalls)
    \/ \E c \in Procs : StartReadControl(c, ConcReads, MaxConcCalls)
    \/ \E c \in Procs : WritePoll(c)
    \/ \E c \in Procs : WriteSet(c)
    \/ \E c \in Procs : ReadPoll1(c)
    \/ \E c \in Procs : ReadSet(c)
    \/ \E c \in Procs : ReadPoll2(c)
    \/ \E c \in Procs : ReadGet(c)
    \/ \E c \in Procs : Acquire(c)
    \/ \E c \in Procs : Release(c)
    \/ Receive

SpecConc == InitConc /\ [][NextConc]_vars

\* one caller that uses the ramp operations; the device is at some Z position
InitRamp ==
    /\ \E z \in 0..MaxZ : InitDevice([InitControls EXCEPT ![ZControl] = z])
    /\ callers = {1}
    /\ useLock = FALSE

NextRamp ==
    \/ \E c \in Procs : StartDoRampAbsolute(c, MaxRampCalls)
    \/ \E c \in Procs : StartDoRampRelativeLength(c, MaxRampCalls)
    \/ \E c \in Procs : StartDoRampRelativeTrig(c, MaxRampCalls)
    \/ \E c \in Procs : StartIsRamping(c, MaxRampCalls)
    \/ \E c \in Procs : WritePoll(c)
    \/ \E c \in Procs : WriteSet(c)
    \/ \E c \in Procs : ReadPoll1(c)
    \/ \E c \in Procs : ReadSet(c)
    \/ \E c \in Procs : ReadPoll2(c)
    \/ \E c \in Procs : ReadGet(c)
    \/ Receive
    \/ RampStart
    \/ RampEnd

SpecRamp == InitRamp /\ [][NextRamp]_vars

\* one caller that moves the tip while time passes; the device has some scan
\* speed
InitMove ==
    /\ \E v \in SpeedValues : \E g \in GeometryValues :
          InitDevice([InitControls EXCEPT ![ScanSpeedControl] = v,
                                          ![ScanGeometryControl] = g])
    /\ callers = {1}
    /\ useLock = FALSE

NextMove ==
    \/ \E c \in Procs : StartSetXYPosition(c, MaxMoveCalls)
    \/ \E c \in Procs : WritePoll(c)
    \/ \E c \in Procs : WriteSet(c)
    \/ \E c \in Procs : ReadPoll1(c)
    \/ \E c \in Procs : ReadSet(c)
    \/ \E c \in Procs : ReadPoll2(c)
    \/ \E c \in Procs : ReadGet(c)
    \/ \E c \in Procs : SleepDone(c)
    \/ Receive
    \/ Tick(MaxTime)

SpecMove == InitMove /\ [][NextMove]_vars

\* one caller that runs the ramp script while time passes
NextProto ==
    \/ \E c \in Procs : StartRampScript(c, MaxProtoCalls)
    \/ \E c \in Procs : WritePoll(c)
    \/ \E c \in Procs : WriteSet(c)
    \/ \E c \in Procs : ReadPoll1(c)
    \/ \E c \in Procs : ReadSet(c)
    \/ \E c \in Procs : ReadPoll2(c)
    \/ \E c \in Procs : ReadGet(c)
    \/ \E c \in Procs : SleepDone(c)
    \/ Receive
    \/ RampStart
    \/ RampEnd
    \/ Tick(MaxTime)

SpecProto == InitRamp /\ [][NextProto]_vars

\* one caller that issues the single-field operations, the actions and a ramp
\* while the front panel changes
NextField ==
    \/ \E c \in Procs : StartSetField(c, MaxFieldCalls)
    \/ \E c \in Procs : StartAction(c, MaxFieldCalls)
    \/ \E c \in Procs : StartSetTimeout(c, MaxFieldCalls)
    \/ \E c \in Procs : StartIsScanning(c, MaxFieldCalls)
    \/ \E c \in Procs : StartGetWaveformParams(c, MaxFieldCalls)
    \/ \E c \in Procs : StartFieldRamp(c, MaxFieldCalls)
    \/ \E c \in Procs : WritePoll(c)
    \/ \E c \in Procs : WriteSet(c)
    \/ \E c \in Procs : ReadPoll1(c)
    \/ \E c \in Procs : ReadSet(c)
    \/ \E c \in Procs : ReadPoll2(c)
    \/ \E c \in Procs : ReadGet(c)
    \/ Receive
    \/ RampStart
    \/ RampEnd
    \/ PanelEdit

SpecField == Init /\ [][NextField]_vars

\* one caller whose steps are taken again and again, a receiver that goes on
\* consuming and a clock that goes on while the caller sleeps
StartLive(c) == \E call \in LiveCalls : StartCall(c, call[1], call[2], MaxLiveCalls)

CallerStep(c) ==
    \/ WritePoll(c)
    \/ WriteSet(c)
    \/ ReadPoll1(c)
    \/ ReadSet(c)
    \/ ReadPoll2(c)
    \/ ReadGet(c)
    \/ SleepDone(c)

\* the clock does not pass the time at which the sleeper wakes
TickLive == \E c \in callers : caller[c].pc = "sleep" /\ Tick(caller[c].wake)

NextLive ==
    \/ \E c \in Procs : StartLive(c)
    \/ \E c \in Procs : CallerStep(c)
    \/ Receive
    \/ RampStart
    \/ RampEnd
    \/ TickLive

\* the caller's thread runs, the bridge VI runs and time passes
LiveFairness ==
    /\ \A c \in Procs : WF_vars(CallerStep(c))
    /\ WF_vars(Receive)
    /\ WF_vars(TickLive)

SpecLive == InitMove /\ [][NextLive]_vars /\ LiveFairness

\* one caller, with the history of the commands written and consumed
InitSeq ==
    /\ InitState(InitControls, KeptJournal)
    /\ regs = FpgaRegisters(0, 0)
    /\ callers = {1}
    /\ useLock = FALSE

NextSeq ==
    \/ \E c \in Procs : StartWriteControl(c, RawWrites, MaxSeqCalls)
    \/ \E c \in Procs : StartReadControl(c, RawReads, MaxSeqCalls)
    \/ \E c \in Procs : StartDoRampRelativeTrig(c, MaxSeqCalls)
    \/ \E c \in Procs : WritePoll(c)
    \/ \E c \in Procs : WriteSet(c)
    \/ \E c \in Procs : ReadPoll1(c)
    \/ \E c \in Procs : ReadSet(c)
    \/ \E c \in Procs : ReadPoll2(c)
    \/ \E c \in Procs : ReadGet(c)
    \/ Receive
    \/ RampStart
    \/ RampEnd

SpecSeq == InitSeq /\ [][NextSeq]_vars

\* caller 1 runs a ramp operation while the other callers write a command,
\* with or without the lock; the history of the commands is kept
InitPulse ==
    /\ InitState(InitControls, KeptJournal)
    /\ regs = FpgaRegisters(0, 0)
    /\ callers = Procs
    /\ useLock \in BOOLEAN

NextPulse ==
    \/ StartFieldRamp(1, MaxConcCalls)
    \/ \E c \in Procs \ {1} : StartWriteControl(c, ConcWrites, MaxConcCalls)
    \/ \E c \in Procs : WritePoll(c)
    \/ \E c \in Procs : WriteSet(c)
    \/ \E c \in Procs : Acquire(c)
    \/ \E c \in Procs : Release(c)
    \/ Receive
    \/ RampStart
    \/ RampEnd

SpecPulse == InitPulse /\ [][NextPulse]_vars

(***************************************************************************)
(* The operations of Utils on the FPGA session.                            *)
(***************************************************************************)
StartFpga(c, limit) ==
    \/ \E v \in {0, 20} :
            StartCall(c, "set_setpoint_FPGA", [set_point_val |-> v], limit)
    \/ \E a \in [final_setpoint : {0, 20}, final_exc_amplitude : {0, 1000},
                  duration_ms : {100 * d : d \in 0..MaxRampTenths}] :
            StartCall(c, "linear_ramp_setpoint_exc_amplitude", a, limit)

\* history of the register writes of a call, as <<statement, register, value>>
\* with the setPoint for the value of a cluster; a write that repeats one of
\* the last two writes recorded (the same statement in the iteration before)
\* is not recorded again
Written(h, ip, s) ==
    LET e == <<ip, s.name, IF s.name = "fb.p.params" THEN s.x.setPoint ELSE s.x>>
    IN  IF \E k \in 1..Len(h) : k >= Len(h) - 1 /\ h[k] = e THEN h ELSE Append(h, e)

\* one statement on the FPGA session or on the clock
RegStep(c) ==
    /\ c \in callers
    /\ caller[c].pc = "reg"
    /\ LET f == caller[c]
           s == Stmt(f, f.ip)
           g == CASE s.reg = "read"  -> [f EXCEPT !.local[s.x] = regs[s.name]]
                  [] s.reg = "write" ->
                        [f EXCEPT !.regwrites = Written(@, f.ip, s)]
                  [] s.reg = "clock" -> [f EXCEPT !.local[s.x] = now]
       IN  /\ regs' = IF s.reg = "write" THEN [regs EXCEPT ![s.name] = s.x] ELSE regs
           /\ caller' = [caller EXCEPT ![c] = Goto(g, f.ip + 1)]
    /\ UNCHANGED <<slot, controls, receiverUp, pending, callers, useLock, lockHolder,
                   now, ramp, journal>>

\* time passes while a linear ramp runs; the clock is followed until the
\* duration of the ramp has elapsed
PerfCounterTick ==
    /\ \E c \in callers :
            /\ caller[c].op = "linear_ramp_setpoint_exc_amplitude"
            /\ caller[c].pc = "reg"
            /\ caller[c].ip > 1
            /\ now < caller[c].local.start_time + caller[c].args.duration_ms \div 100
    /\ now' = now + 1
    /\ UNCHANGED <<slot, controls, receiverUp, pending, caller, callers, useLock,
                   lockHolder, ramp, journal, regs>>

\* another user of the FPGA session changes another field of the cluster
\* (followed while a call is at work on the registers)
RegDrift ==
    /\ \E c \in callers : caller[c].pc = "reg"
    /\ regs' = [regs EXCEPT !["fb.p.params"].other = 1 - @]
    /\ UNCHANGED <<slot, controls, receiverUp, pending, caller, callers, useLock,
                   lockHolder, now, ramp, journal>>

NextFPGA ==
    \/ StartFpga(1, MaxFpgaCalls)
    \/ RegStep(1)
    \/ WritePoll(1)
    \/ WriteSet(1)
    \/ Receive
    \/ PerfCounterTick
    \/ RegDrift

\* the caller's thread runs, the bridge VI runs and time passes
SpecFPGA ==
    /\ \E setPoint \in {0, 2} : \E amplitude \in {0, 3276} :
            /\ InitState(InitControls, NoJournal)
            /\ regs = FpgaRegisters(setPoint, amplitude)
            /\ callers = {1}
            /\ useLock = FALSE
    /\ [][NextFPGA]_vars
    /\ WF_vars(RegStep(1))
    /\ WF_vars(WritePoll(1) \/ WriteSet(1))
    /\ WF_vars(Receive)
    /\ WF_vars(PerfCounterTick)

(***************************************************************************)
(* Properties.                                                             *)
(***************************************************************************)
Range(seq) == {seq[k] : k \in 1..Len(seq)}

Polling(f)  == f.pc \in {"w_get", "r_get1", "r_get2"}
Finished(f) == f.pc = "idle" /\ f.outcome \in {"returned", "ValueError"}

\* C1: with one caller and a receiver that only clears the slot, at most one
\* command is written and not yet consumed, and a caller is about to write
\* only when its last poll returned the empty string and the slot is empty.
C1_OneInFlight ==
    /\ Len(pending) <= 1
    /\ \A c \in callers :
          caller[c].pc \in {"w_set", "r_set"} =>
             (caller[c].message = "" /\ slot = "" /\ pending = <<>>)

\* the command of a later call is in the slot, the earlier ones were consumed
C1_Witness ==
    \E c \in callers :
        /\ caller[c].ncalls >= 2
        /\ caller[c].trace # <<>>
        /\ slot = caller[c].command
        /\ pending = <<slot>>

\* C2: a read_control call observes the slot empty, writes its command,
\* observes the slot empty again and only then reads the named control; when
\* it reads the control, the receiver has consumed the call's own command.
C2_ReadControlOrder ==
    \A c \in callers :
        /\ caller[c].pc = "r_read" =>
              /\ caller[c].log = <<"empty", "write", "empty">>
              /\ caller[c].command \notin Range(pending)
              /\ slot = ""
        /\ "read" \in Range(caller[c].log) =>
              caller[c].log = <<"empty", "write", "empty", "read">>

C2_Witness ==
    \E c \in callers :
        /\ caller[c].op = "read_control"
        /\ caller[c].outcome = "returned"
        /\ caller[c].log = <<"empty", "write", "empty", "read">>
        /\ caller[c].ret = controls[caller[c].control_name]

\* C3: the step of write_control that writes the command into the slot is
\* the step in which the call returns: no poll follows the write, and the
\* command is in the slot when the call has returned.
C3_WriteReturnsAtOnce ==
    [][\A c \in callers :
          (caller[c].pc = "w_set" /\ caller'[c] # caller[c]) =>
             /\ slot' = caller[c].command
             /\ caller'[c].ip = caller[c].ip + 1
             /\ caller'[c].trace = Append(caller[c].trace, caller[c].command)
             /\ ~(Polling(caller'[c]) /\ caller'[c].ip = caller[c].ip)]_vars

\* write_control has returned and its command is still in the slot
C3_Witness ==
    \E c \in callers :
        /\ caller[c].op = "write_control"
        /\ caller[c].outcome = "returned"
        /\ slot = caller[c].command
        /\ pending = <<caller[c].command>>

\* C4: while the slot is non-empty and the receiver has stopped, the slot
\* keeps its value and a caller inside write_control or read_control stays in
\* the wait loop it is in: it writes nothing, does not return, raises nothing.
C4_BlocksForever ==
    [][(~receiverUp /\ slot # "") =>
          /\ slot' = slot
          /\ ~receiverUp'
          /\ \A c \in callers :
                caller[c].pc # "idle" =>
                   /\ Polling(caller[c])
                   /\ caller'[c].pc = caller[c].pc
                   /\ caller'[c].ip = caller[c].ip
                   /\ caller'[c].trace = caller[c].trace
                   /\ caller'[c].outcome = "running"]_vars

\* the receiver has stopped and a caller has polled the stuck command
C4_Witness ==
    \E c \in callers :
        /\ ~receiverUp
        /\ slot # ""
        /\ Polling(caller[c])
        /\ caller[c].message = slot

\* C5: when every call is made under the process-wide lock, at most one
\* command is written and not yet consumed, however many callers there are.
C5_LockedOneInFlight == useLock => Len(pending) <= 1

\* without the lock, both callers saw the slot empty and both wrote: the
\* first command was overwritten before the receiver consumed it
C5_Witness ==
    /\ ~useLock
    /\ Len(pending) >= 2
    /\ \A c \in callers : caller[c].trace # <<>>
    /\ slot = pending[Len(pending)]

\* the four point-count arguments of a set_waveform_params call
PointCounts(a) == {a.slowN, a.slowroundN, a.fastN, a.fastroundN}

NotIntegerOver2(v) == v.type # "int" \/ v.n <= 2

\* C6: a set_waveform_params call with a point count that is <= 2 or not an
\* integer writes nothing to the mailbox and ends with the validation error.
C6_NoTrafficOnBadPoints ==
    \A c \in callers :
        (caller[c].op = "set_waveform_params"
         /\ \E v \in PointCounts(caller[c].args) : NotIntegerOver2(v)) =>
            /\ caller[c].trace = <<>>
            /\ Finished(caller[c]) => caller[c].outcome = "ValueError"

\* the fields in the order set_waveform_params validates them, with the text
\* of the value each would be written with
FieldsInOrder(a) ==
    << <<"slowWavePts", a.slowN>>, <<"slowRoundPts", a.slowroundN>>,
       <<"fastWavePts", a.fastN>>, <<"fastRoundPts", a.fastroundN>>,
       <<"slowWaveType", a.slowType>>, <<"fastWaveType", a.fastType>> >>

FieldOk(a, k) ==
    IF k <= 4 THEN ~NotIntegerOver2(FieldsInOrder(a)[k][2])
    ELSE FieldsInOrder(a)[k][2] \in {"Triangle", "Rounded", "Sine"}

FieldCommand(a, k) ==
    "w_wav:scanWaveFormCtl:" \o FieldsInOrder(a)[k][1] \o ":" \o
        (IF k <= 4 THEN ToString(FieldsInOrder(a)[k][2].n) ELSE FieldsInOrder(a)[k][2])

CommitCommand == "w_wav:scanWaveFormCtl:Update FPGA:True"

FirstBad(a) == CHOOSE k \in 1..6 : ~FieldOk(a, k) /\ \A j \in 1..(k - 1) : FieldOk(a, j)

\* C7: when set_waveform_params fails, the writes of the call are exactly the
\* fields validated before the failing one, in that order; nothing at or after
\* the failing field and no commit is written.
C7_PartialWrites ==
    \A c \in callers :
        (caller[c].op = "set_waveform_params" /\ caller[c].outcome = "ValueError") =>
            LET a == caller[c].args
            IN  /\ \E k \in 1..6 : ~FieldOk(a, k)
                /\ caller[c].trace = [k \in 1..(FirstBad(a) - 1) |-> FieldCommand(a, k)]
                /\ CommitCommand \notin Range(caller[c].trace)

\* a call that failed at a wave type, after its four point counts were written
C7_Witness ==
    \E c \in callers :
        /\ caller[c].op = "set_waveform_params"
        /\ caller[c].outcome = "ValueError"
        /\ Len(caller[c].trace) = 4
        /\ pending = <<>>

\* C8 as stated: a successful set_waveform_params writes slowWavePts,
\* slowWaveType, slowRoundPts, fastWavePts, fastWaveType, fastRoundPts and
\* then the commit.
C8_DeclarationOrder ==
    \A c \in callers :
        (caller[c].op = "set_waveform_params" /\ caller[c].outcome = "returned") =>
            LET a == caller[c].args
            IN  caller[c].trace =
                  <<FieldCommand(a, 1), FieldCommand(a, 5), FieldCommand(a, 2),
                    FieldCommand(a, 3), FieldCommand(a, 6), FieldCommand(a, 4),
                    CommitCommand>>

\* C8 amended: a successful set_waveform_params writes the four point counts
\* slowWavePts, slowRoundPts, fastWavePts, fastRoundPts, then the two types
\* slowWaveType, fastWaveType, then the commit.
C8_ValidationOrder ==
    \A c \in callers :
        (caller[c].op = "set_waveform_params" /\ caller[c].outcome = "returned") =>
            LET a == caller[c].args
            IN  caller[c].trace =
                  <<FieldCommand(a, 1), FieldCommand(a, 2), FieldCommand(a, 3),
                    FieldCommand(a, 4), FieldCommand(a, 5), FieldCommand(a, 6),
                    CommitCommand>>

\* a successful call whose two wave types differ
C8_Witness ==
    \E c \in callers :
        /\ caller[c].op = "set_waveform_params"
        /\ caller[c].outcome = "returned"
        /\ caller[c].args.slowType # caller[c].args.fastType
        /\ Len(caller[c].trace) = 7

\* C9: a successful set_waveform_params writes seven commands: one for each
\* of the six fields and then, last, a single commit.
C9_OneCommitLast ==
    \A c \in callers :
        (caller[c].op = "set_waveform_params" /\ caller[c].outcome = "returned") =>
            LET a == caller[c].args
                t == caller[c].trace
            IN  /\ Len(t) = 7
                /\ t[7] = CommitCommand
                /\ {t[k] : k \in 1..6} = {FieldCommand(a, k) : k \in 1..6}
                /\ Cardinality({t[k] : k \in 1..6}) = 6
                /\ \A k \in 1..6 : t[k] # CommitCommand

\* a successful call has returned and its commit is the command in the slot
C9_Witness ==
    \E c \in callers :
        /\ caller[c].op = "set_waveform_params"
        /\ caller[c].outcome = "returned"
        /\ slot = CommitCommand
        /\ caller[c].trace[Len(caller[c].trace)] = slot

RampOps ==
    {"do_ramp_absolute", "do_ramp_absolute_length", "do_ramp_absolute_trig",
     "do_ramp_relative_length", "do_ramp_relative_trig"}

RelativeRampOps == {"do_ramp_relative_length", "do_ramp_relative_trig"}

\* the positions of the Play commands in a sequence of commands
PlayWrites(t) ==
    {k \in 1..Len(t) : t[k] \in {PlayCommand("True"), PlayCommand("False")}}

\* C11: a ramp operation of any variant that has returned has written exactly
\* two Play commands, Play:True and right after it Play:False.
C11_PlayPulse ==
    \A c \in callers :
        (caller[c].op \in RampOps /\ caller[c].outcome = "returned") =>
            LET t == caller[c].trace
            IN  \E k \in 1..(Len(t) - 1) :
                    /\ t[k] = PlayCommand("True")
                    /\ t[k + 1] = PlayCommand("False")
                    /\ PlayWrites(t) = {k, k + 1}

\* the texts a ramp command can carry as its value
RampTexts ==
    {"Relative Height", "Process Variable", ">", "<", "True", "False"}
    \cup {ToString(n) : n \in -2..(MaxZ + MaxN + 2)}

\* the command sets a value of the path
IsRampWrite(command, path) == \E text \in RampTexts : command = RampCommand(path, text)

\* the trigger source that the first write of a ramp selects
SourceOf(t) ==
    IF t # <<>> /\ t[1] = RampCommand("Trigger Source", "Process Variable")
    THEN "Process Variable" ELSE "Relative Height"

\* the mandatory order of the writes of a ramp with the trigger source
ConfigOrder(source) ==
    <<"Trigger Source">>
    \o (IF source = "Process Variable" THEN <<"Trigger sign">> ELSE <<>>)
    \o <<"Parameters:Start", "Parameters:Distance", "Parameters:Points",
         "Parameters:Fwd", "Parameters:Bwd", "Parameters:Pause">>

\* C12: the writes of a ramp operation follow the mandatory order: the k-th
\* write sets the k-th field of Trigger Source, (Trigger sign when the source
\* is Process Variable), Start, Distance, Points, Fwd, Bwd, Pause; Play:True
\* and Play:False come after all of them and are the last two writes of a
\* call that has returned.
C12_ParameterOrder ==
    \A c \in callers :
        (caller[c].op \in RampOps /\ caller[c].writes # <<>>) =>
            LET w == caller[c].writes
                order == ConfigOrder(SourceOf(w))
                n == Len(order)
            IN  /\ Len(w) <= n + 2
                /\ \A k \in 1..Len(w) :
                        IF k <= n THEN IsRampWrite(w[k], order[k])
                        ELSE IF k = n + 1 THEN w[k] = PlayCommand("True")
                        ELSE w[k] = PlayCommand("False")
                /\ \E text \in {"Relative Height", "Process Variable"} :
                        w[1] = RampCommand("Trigger Source", text)
                /\ caller[c].outcome = "returned" => Len(w) = n + 2

\* a triggered relative ramp has returned after its ten writes and the
\* bridge has consumed the last one
C12_Witness ==
    \E c \in callers :
        /\ caller[c].op = "do_ramp_relative_trig"
        /\ caller[c].outcome = "returned"
        /\ Len(caller[c].writes) = 10
        /\ caller[c].args.trig_sig = "<"
        /\ slot = ""

\* the positions of the Z position query in a sequence of commands
ZQueries(t) == {k \in 1..Len(t) : t[k] = ZQueryCommand}

\* C13: a relative ramp that has returned has read the Z position exactly
\* once, as its first command, and has sent Start = that position + init.
C13_StartFromZ ==
    \A c \in callers :
        (caller[c].op \in RelativeRampOps /\ caller[c].outcome = "returned") =>
            /\ ZQueries(caller[c].trace) = {1}
            /\ RampCommand("Parameters:Start",
                           ToString(controls[ZControl] + caller[c].args.init))
                    \in Range(caller[c].writes)

\* the sequence without its element at position k
Without(t, k) == SubSeq(t, 1, k - 1) \o SubSeq(t, k + 1, Len(t))

\* C14: a do_ramp_relative_trig call and the do_ramp_relative_length call
\* before it, made with the same N, speed_f, speed_b and wait_s, have written
\* the same sequence of commands but for the value of Trigger Source, the
\* Trigger sign written after it by the triggered ramp alone, and the values
\* of Start and Distance.
C14_SharedSequence ==
    \A c \in callers :
        (/\ caller[c].op = "do_ramp_relative_trig"
         /\ caller[c].outcome = "returned"
         /\ caller[c].lastRamp # <<>>) =>
            LET a == caller[c].args
                b == caller[c].lastRamp[1].args
                T == caller[c].writes
                L == caller[c].lastRamp[1].writes
            IN  (a.N = b.N /\ a.speed_f = b.speed_f /\ a.speed_b = b.speed_b
                 /\ a.wait_s = b.wait_s) =>
                    /\ T[1] = RampCommand("Trigger Source", "Process Variable")
                    /\ L[1] = RampCommand("Trigger Source", "Relative Height")
                    /\ IsRampWrite(T[2], "Trigger sign")
                    /\ \A k \in 1..Len(L) : ~IsRampWrite(L[k], "Trigger sign")
                    /\ Len(Without(T, 2)) = Len(L)
                    /\ \A k \in 2..Len(L) :
                            \/ L[k] = Without(T, 2)[k]
                            \/ \E path \in {"Parameters:Start", "Parameters:Distance"} :
                                    /\ IsRampWrite(L[k], path)
                                    /\ IsRampWrite(Without(T, 2)[k], path)

\* a triggered ramp has returned after a fixed-length ramp with the same N
\* and another init
C14_Witness ==
    \E c \in callers :
        /\ caller[c].op = "do_ramp_relative_trig"
        /\ caller[c].outcome = "returned"
        /\ caller[c].lastRamp # <<>>
        /\ caller[c].lastRamp[1].args.N = caller[c].args.N
        /\ caller[c].lastRamp[1].args.init # caller[c].args.init

\* the positions of the scan-stop command in a sequence of commands
Stops(t) == {k \in 1..Len(t) : t[k] = ScanStopCommand}

\* the positions of the scan-down command in a sequence of commands
Downs(t) == {k \in 1..Len(t) : t[k] = ScanDownCommand}

\* C15: in set_xyposition with forced = True the first command written is
\* the scan-stop; with forced = False every scan-stop written comes after the
\* scan-down, and there is at most one.
C15_ForcedStopFirst ==
    \A c \in callers :
        (caller[c].op = "set_xyposition" /\ caller[c].trace # <<>>) =>
            LET t == caller[c].trace
            IN  IF caller[c].args.forced
                THEN t[1] = ScanStopCommand
                ELSE /\ \A k \in Stops(t) : \E j \in Downs(t) : j < k
                     /\ Cardinality(Stops(t)) <= 1

\* a forced move has stopped the scan and then started the single-line scan
C15_Witness ==
    \E c \in callers :
        /\ caller[c].op = "set_xyposition"
        /\ caller[c].args.forced
        /\ Downs(caller[c].trace) # {}
        /\ Cardinality(Stops(caller[c].trace)) = 1

\* the six writes of a move, in the order of the claim
MoveWrites(a) ==
    <<ScanParamCommand("Width", "1e-12"), ScanParamCommand("Height", "1e-12"),
      ScanParamCommand("Offset X", ToString(a.x)),
      ScanParamCommand("Offset Y", ToString(a.y)),
      w_sca \o "Actions:Frame down:True", w_sca \o "Actions:Stop:True">>

\* C16: the writes of set_xyposition, after the scan-stop of a forced move,
\* are width = 1e-12, height = 1e-12, offset X = x, offset Y = y, scan-down,
\* scan-stop in this order, and the scan-stop is the last write of a call
\* that has returned.
C16_MoveOrder ==
    \A c \in callers :
        caller[c].op = "set_xyposition" =>
            LET w == caller[c].writes
                m == IF caller[c].args.forced /\ w # <<>> THEN Tail(w) ELSE w
            IN  /\ Len(m) <= 6
                /\ m = SubSeq(MoveWrites(caller[c].args), 1, Len(m))
                /\ caller[c].outcome = "returned" =>
                        (Len(m) = 6 /\ w[Len(w)] = ScanStopCommand)

\* a move that was not forced has returned and its scan-stop is in the slot
C16_Witness ==
    \E c \in callers :
        /\ caller[c].op = "set_xyposition"
        /\ ~caller[c].args.forced
        /\ caller[c].args.x = 1
        /\ caller[c].outcome = "returned"
        /\ slot = ScanStopCommand

\* C17: in set_xyposition a scan-stop written after the scan-down is written
\* at least scanSpeed x 1.1 seconds after it, for the scan speed of the
\* device (times are in tenths of a second).
C17_StopAfterLineTime ==
    \A c \in callers :
        caller[c].op = "set_xyposition" =>
            \A j \in Downs(caller[c].writes) : \A k \in Stops(caller[c].writes) :
                k > j =>
                    10 * (caller[c].wtimes[k] - caller[c].wtimes[j])
                        >= 11 * (10 * controls[ScanSpeedControl])

\* the final scan-stop was written as soon as the time had passed, for a
\* device whose scan speed is not zero
C17_Witness ==
    \E c \in callers :
        /\ caller[c].op = "set_xyposition"
        /\ caller[c].outcome = "returned"
        /\ controls[ScanSpeedControl] = MaxSpeed
        /\ \E j \in Downs(caller[c].writes) : \E k \in Stops(caller[c].writes) :
                /\ k > j
                /\ caller[c].wtimes[k] - caller[c].wtimes[j] = 11 * MaxSpeed

\* C18, as claimed: a relative ramp operation that has returned has polled
\* is_ramping and the ramp is not in progress.
C18_WaitsForRamp ==
    \A c \in callers :
        (caller[c].op \in RelativeRampOps /\ caller[c].outcome = "returned") =>
            /\ RampingCommand \in Range(caller[c].trace)
            /\ ramp # "ramping"

\* C18: a relative ramp operation never queries is_ramping, and it has
\* returned as soon as it has written Play:False.
C18_ReturnsAfterPulse ==
    \A c \in callers :
        caller[c].op \in RelativeRampOps =>
            /\ RampingCommand \notin Range(caller[c].trace)
            /\ PlayCommand("False") \in Range(caller[c].writes) =>
                    caller[c].outcome = "returned"
            /\ caller[c].outcome = "returned" =>
                    caller[c].writes[Len(caller[c].writes)] = PlayCommand("False")

\* a relative ramp operation has returned and the ramp it started is in
\* progress
C18_Witness ==
    \E c \in callers :
        /\ caller[c].op \in RelativeRampOps
        /\ caller[c].outcome = "returned"
        /\ ramp = "ramping"
        /\ controls[RampingControl]

\* the state of the ramp sequencer that the script is in
Phase(f) ==
    IF f.op # "ramp_script" \/ f.outcome # "running" THEN "Idle"
    ELSE IF f.ip <= 9 THEN "Configuring"
    ELSE IF f.ip <= 14 THEN "Armed"
    ELSE IF f.ip <= 17 THEN "Ramping"
    ELSE "Settling"

NextPhase(p) ==
    CASE p = "Idle"        -> "Configuring"
      [] p = "Configuring" -> "Armed"
      [] p = "Armed"       -> "Ramping"
      [] p = "Ramping"     -> "Settling"
      [] p = "Settling"    -> "Idle"

\* the polls of is_ramping have observed true and, later, false
SawStartThenEnd(obs) ==
    \E i \in 1..Len(obs) : \E j \in 1..Len(obs) : i < j /\ obs[i] /\ ~obs[j]

\* C19: a ramp run by the script goes through Idle, Configuring, Armed,
\* Ramping, Settling, Idle in this order; it is in Ramping (the wait-for-end
\* loop) only after a poll has observed ramping = true, and in Settling or
\* back in Idle only after a later poll has observed ramping = false.
C19_PhaseOrder ==
    /\ [](\A c \in callers :
            caller[c].op = "ramp_script" =>
                /\ Phase(caller[c]) = "Ramping" => TRUE \in Range(caller[c].obs)
                /\ (Phase(caller[c]) = "Settling" \/ caller[c].outcome = "returned") =>
                        /\ SawStartThenEnd(caller[c].obs)
                        /\ ~caller[c].obs[Len(caller[c].obs)])
    /\ [][\A c \in callers :
            \/ Phase(caller'[c]) = Phase(caller[c])
            \/ Phase(caller'[c]) = NextPhase(Phase(caller[c]))]_vars

\* the script has returned after it waited for the ramp to start and to end
C19_Witness ==
    \E c \in callers :
        /\ caller[c].op = "ramp_script"
        /\ caller[c].outcome = "returned"
        /\ caller[c].obs = <<FALSE, TRUE, TRUE, FALSE>>

\* C20: a write_control or read_control call writes its command at most
\* once, and exactly once when it has returned, whether the receiver
\* consumes the command or stops.
C20_NoRetry ==
    \A c \in callers :
        caller[c].op \in {"write_control", "read_control"} =>
            /\ Len(caller[c].trace) <= 1
            /\ Range(caller[c].trace) \subseteq {caller[c].args.command}
            /\ Finished(caller[c]) => caller[c].trace = <<caller[c].args.command>>

\* a write_control call has returned, the receiver has stopped and the
\* command is still in the slot
C20_Witness ==
    \E c \in callers :
        /\ caller[c].op = "write_control"
        /\ caller[c].outcome = "returned"
        /\ ~receiverUp
        /\ slot = caller[c].args.command
        /\ caller[c].trace = <<slot>>

FieldFrames == {caller[c] : c \in callers}

\* C21: a single-field waveform setter called with an invalid value raises
\* ValueError without having written any command, and the step that raises
\* leaves the slot and the front panel as they were.
C21_RejectsBeforeWrite ==
    /\ [](\A f \in FieldFrames :
            f.op \in FieldSetters /\ InvalidField(FieldSetter(f.op).kind, f.args.value)
                => f.outcome = "ValueError" /\ f.trace = <<>>)
    /\ [][\A c \in callers :
            caller'[c].op \in FieldSetters /\ caller'[c].outcome = "ValueError"
            /\ caller'[c] # caller[c]
                => slot' = slot /\ controls' = controls /\ pending' = pending]_vars

\* a setter has raised while a command of the call before it is in the slot
C21_Witness ==
    \E f \in FieldFrames :
        /\ f.op = "set_hys_corr" /\ f.outcome = "ValueError"
        /\ f.args.value = PyInt(1)
        /\ slot # ""

\* the operations that write a field of the scanWaveFormCtl aggregate
WaveWriters == FieldSetters \cup {"set_waveform_params"}

\* C22: a returned operation that has written a field of the waveform
\* aggregate has written the 'Update FPGA' commit after its field writes, as
\* its last command.
C22_CommitsBeforeReturn ==
    \A f \in FieldFrames :
        f.op \in WaveWriters /\ f.outcome = "returned" /\ f.writes # <<>>
            => /\ f.writes[Len(f.writes)] = UpdateFPGACommand
               /\ Len(f.writes) >= 2

\* the actions and the commands they write as True
ActionTrue == {ActionCommand(op) : op \in ActionOps} \cup {PlayCommand("True")}

\* C23 as stated: in a returned call every action command written as True is
\* followed at once by the write of False to the same path.
C23_PulseEverywhere ==
    \A f \in FieldFrames :
        f.outcome = "returned" =>
            \A k \in DOMAIN f.writes :
                f.writes[k] \in ActionTrue =>
                    k < Len(f.writes) /\ f.writes[k + 1] = Lowered(f.writes[k])

\* C23: only the ramp's Play is written as a pulse: in a returned call
\* Play:True is followed at once by Play:False, whereas a scan action, Save
\* now, Update FPGA and Shift are written once as True and False is never
\* written to their paths.
C23_PulseOnlyPlay ==
    \A f \in FieldFrames :
        /\ f.outcome = "returned" =>
              \A k \in DOMAIN f.writes :
                  f.writes[k] = PlayCommand("True") =>
                      k < Len(f.writes) /\ f.writes[k + 1] = PlayCommand("False")
        /\ \A k \in DOMAIN f.writes :
              f.writes[k] \notin {Lowered(ActionCommand(op)) : op \in ActionOps}
        /\ f.op \in ActionOps /\ f.outcome = "returned"
              => f.writes = <<ActionCommand(f.op)>>

\* scan_up has returned after the single write of Frame up:True, which the
\* receiver has consumed
C23_Witness ==
    \E f \in FieldFrames :
        /\ f.op = "scan_up" /\ f.outcome = "returned"
        /\ f.writes = <<ActionCommand("scan_up")>>
        /\ slot = ""

\* the prefixes of the channels
WritePrefixes == {w_wav, w_sca, w_ram}
ReadPrefixes  == {r_wav, r_ram, r_sca, r_zco, r_sco}

\* the names that make up the paths of the front panel
Segments ==
    {"scanWaveFormCtl", "slowWavePts", "fastWavePts", "slowWaveType", "fastWaveType",
     "slowRoundPts", "fastRoundPts", "HysX Source", "HysY Source", "Hys Correct",
     "Resonance", "Percent", "Update FPGA", "Shift", "Actions", "Frame up",
     "Frame down", "Bounce", "Stop", "Save now", "Play", "Parameters", "Start",
     "Distance", "Points", "Fwd", "Bwd", "Pause", "Trigger Source", "Trigger sign",
     "Width", "Height", "Offset X", "Offset Y", "Ramping?", "Z position",
     "Scan speed", "isScanEnable?", "Timeout"}

\* the paths of one, two or three names joined by ':'
Paths ==
    Segments \cup {a \o ":" \o b : a \in Segments, b \in Segments}
             \cup {"scanWaveFormCtl:" \o a \o ":" \o b : a \in Segments, b \in Segments}

\* the literal texts of the values
ValueTexts ==
    {"True", "False", "Triangle", "Rounded", "Sine", "Config", "Scan", "None",
     "Relative Height", "Process Variable", ">", "<", TinyText}
    \cup {ToString(n) : n \in -9..9}

\* the commands of the grammar
GrammarWrites == {p \o path \o ":" \o v : p \in WritePrefixes, path \in Paths, v \in ValueTexts}
GrammarReads  == {p \o path : p \in ReadPrefixes, path \in Paths}

\* C24: the command in the slot is a write <write prefix><path>:<value> or a
\* read <read prefix><path>, the path made of non-empty names joined by ':'.
C24_CommandGrammar == slot # "" => slot \in GrammarWrites \cup GrammarReads

\* C25: get_waveform_params writes one query, that of scanWaveFormCtl, and
\* returns the fields 0, 2, 4, 1, 3, 5 of the one response it read: the six
\* values are those the aggregate held in the state in which the call
\* returns, whatever the front panel holds later.
C25_OneSnapshot ==
    /\ [](\A f \in FieldFrames :
            f.op = "get_waveform_params" =>
                /\ f.trace \in {<<>>, <<WaveQueryCommand>>}
                /\ f.outcome = "returned" =>
                      f.trace = <<WaveQueryCommand>> /\ f.ret = WaveOrder(f.response))
    /\ [][\A c \in callers :
            /\ caller'[c].op = "get_waveform_params"
            /\ caller'[c].outcome = "returned"
            /\ caller[c].outcome # "returned"
            => caller'[c].ret = WaveOrder(controls[WaveQueryControl])]_vars

\* the call has returned and the front panel has changed since
C25_Witness ==
    \E f \in FieldFrames :
        /\ f.op = "get_waveform_params" /\ f.outcome = "returned"
        /\ f.ret # WaveOrder(controls[WaveQueryControl])

\* C26: with a receiver that goes on consuming, a write_control call leads to
\* its return with its command written, a read_control call leads to its
\* return, and every running call of an operation leads to its end.
C26_Terminates ==
    \A c \in Procs :
        /\ (caller[c].op = "write_control" /\ caller[c].outcome = "running")
              ~> (caller[c].op = "write_control" /\ caller[c].outcome = "returned"
                  /\ caller[c].trace = <<caller[c].args.command>>)
        /\ (caller[c].outcome = "running")
              ~> (caller[c].outcome \in {"returned", "ValueError"} /\ caller[c].pc = "idle")

\* a forced move has returned after its seven writes, its query and its sleep
C26_Witness ==
    \E c \in callers :
        /\ caller[c].op = "set_xyposition" /\ caller[c].args.forced
        /\ caller[c].outcome = "returned"
        /\ Len(caller[c].writes) = 7
        /\ now > 0

\* the commands that the call of frame f has passed to write_control and
\* read_control and that these have written, in the order of the statements
PassedSoFar(f) ==
    IF f.op = "none" THEN <<>>
    ELSE LET n == IF f.pc \in {"r_get2", "r_read"} THEN f.ip ELSE f.ip - 1
         IN  [k \in 1..n |-> Stmt(f, k).command]

Last(seq) == seq[Len(seq)]
Front(seq) == SubSeq(seq, 1, Len(seq) - 1)
Suffix(seq, n) == SubSeq(seq, Len(seq) - n + 1, Len(seq))

\* C27: with one caller the commands consumed by the receiver are, in order
\* and one for one, the commands passed to write_control and read_control:
\* the commands written end with those of the statements the current call
\* has executed, and the commands consumed are the commands written, but for
\* the one still in the slot.
C27_SameSequence ==
    /\ [](\A c \in callers :
            /\ Len(journal.sent) >= Len(PassedSoFar(caller[c]))
            /\ Suffix(journal.sent, Len(PassedSoFar(caller[c]))) = PassedSoFar(caller[c])
            /\ caller[c].ncalls <= 1 => journal.sent = PassedSoFar(caller[c]))
    /\ [](journal.consumed = IF slot = "" THEN journal.sent ELSE Front(journal.sent))
    /\ [](slot # "" => journal.sent # <<>> /\ Last(journal.sent) = slot)
    /\ [][journal'.consumed = journal.consumed
           \/ journal'.consumed = Append(journal.consumed, slot)]_vars

\* the receiver has consumed Play:True and then Play:False, one after the other
C27_Witness ==
    \E k \in DOMAIN journal.consumed :
        /\ journal.consumed[k] = PlayCommand("True")
        /\ k < Len(journal.consumed)
        /\ journal.consumed[k + 1] = PlayCommand("False")

\* caller c waits for the start of a ramp that is over: its Play:True has
\* been consumed, the ramp is idle again and no poll has observed true
Missed(c) ==
    /\ caller[c].op = "ramp_script" /\ caller[c].outcome = "running"
    /\ caller[c].ip \in 11..14
    /\ slot # PlayCommand("True")
    /\ ramp = "idle" /\ ~controls[RampingControl]
    /\ TRUE \notin Range(caller[c].obs)

\* C28: the script leaves its wait-for-start loop only by a poll of
\* is_ramping that observes true, and then enters the wait-for-end loop; once
\* the ramp is over without such a poll, the script stays in the
\* wait-for-start loop for ever and does not return.
C28_StartLoopNeedsTrue ==
    /\ [][\A c \in callers :
            Phase(caller[c]) = "Armed" /\ Phase(caller'[c]) # "Armed"
                => /\ Phase(caller'[c]) = "Ramping"
                   /\ caller'[c].obs = Append(caller[c].obs, TRUE)]_vars
    /\ [](\A c \in callers : Missed(c) => Phase(caller[c]) = "Armed")
    /\ [][\A c \in callers : Missed(c) => Missed(c)']_vars

\* the ramp started and ended unobserved: the script has polled false at
\* least twice and sleeps in the wait-for-start loop
C28_Witness ==
    \E c \in callers :
        /\ Missed(c)
        /\ Len(caller[c].obs) >= 2
        /\ caller[c].pc = "sleep"
        /\ now >= 2

\* the paths that a ramp operation writes
RampPaths ==
    {"Trigger Source", "Trigger sign", "Parameters:Start", "Parameters:Distance",
     "Parameters:Points", "Parameters:Fwd", "Parameters:Bwd", "Parameters:Pause",
     "Actions:Play"}

OfRamp(command) == \E path \in RampPaths : IsRampWrite(command, path)

\* the receiver has consumed a command of another caller right after a
\* command of a ramp operation that is not its last
Interleaved ==
    \E k \in DOMAIN journal.consumed :
        /\ k < Len(journal.consumed)
        /\ OfRamp(journal.consumed[k])
        /\ journal.consumed[k] # PlayCommand("False")
        /\ ~OfRamp(journal.consumed[k + 1])

\* C29: nothing but the process-wide lock keeps the commands of a ramp
\* operation together: only when the callers do not take the lock does the
\* receiver consume a command of another caller between Play:True and
\* Play:False or between two writes of the Configuring sequence.
C29_InterleavedOnlyUnlocked == Interleaved => ~useLock

\* the receiver has consumed the other caller's command between Play:True
\* and Play:False
C29_Witness ==
    \E k \in DOMAIN journal.consumed :
        /\ k + 2 <= Len(journal.consumed)
        /\ journal.consumed[k] = PlayCommand("True")
        /\ journal.consumed[k + 1] = ScanStopCommand
        /\ journal.consumed[k + 2] = PlayCommand("False")

\* the call of frame f, had it been made with trig_signal s from the device
\* state it was made from
WithSignal(f, s) == [f EXCEPT !.args.trig_signal = s]

ParamWrites(t) == SelectSeq(t, LAMBDA w : DecodeScan(w) # {})

\* C31: a set_xyposition call that has returned has written four scan
\* parameters and no other: width and height, both 1e-12, and the offsets x
\* and y; the device then has this geometry whatever geometry it had before,
\* and every command of the call that is not a scan action is one of these.
C31_GeometryNotRestored ==
    \A c \in callers :
        caller[c].op = "set_xyposition" =>
            /\ \A k \in DOMAIN caller[c].writes :
                  \/ caller[c].writes[k] \in {ScanStopCommand, ScanDownCommand}
                  \/ DecodeScan(caller[c].writes[k]) # {}
            /\ caller[c].outcome = "returned" =>
                  /\ ParamWrites(caller[c].writes)
                        = SubSeq(MoveWrites(caller[c].args), 1, 4)
                  /\ controls[ScanGeometryControl] =
                        [p \in ScanParams |->
                            CASE p = "Offset X" -> ToString(caller[c].args.x)
                              [] p = "Offset Y" -> ToString(caller[c].args.y)
                              [] OTHER -> "1e-12"]

\* a move to x = 1 has returned and the device, whose scan had a width and
\* a height, has the one-pixel geometry at the offsets of the move
C31_Witness ==
    \E c \in callers :
        /\ caller[c].op = "set_xyposition"
        /\ caller[c].outcome = "returned"
        /\ caller[c].args.x = 1
        /\ controls[ScanGeometryControl]["Width"] = "1e-12"
        /\ controls[ScanGeometryControl]["Height"] = "1e-12"
        /\ controls[ScanGeometryControl]["Offset X"] = "1"
        /\ slot = ""

\* the positions of the scan speed query in a sequence of commands
SpeedQueries(t) == {k \in 1..Len(t) : t[k] = ScanSpeedCommand}

\* the geometry of the device after a move with arguments a
MovedGeometry(a) ==
    [p \in ScanParams |->
        CASE p = "Offset X" -> ToString(a.x)
          [] p = "Offset Y" -> ToString(a.y)
          [] OTHER -> "1e-12"]

\* C32: set_xyposition queries the scan speed once, as the command that
\* follows the scan-down, and writes the final scan-stop after the query, so
\* that a command lies between scan-down and scan-stop; the speed is read
\* from the device when the device has the geometry of the move and has
\* consumed the scan-down, and the sleep is computed from the value read.
C32_SpeedReadAfterDown ==
    /\ [](\A c \in callers :
            caller[c].op = "set_xyposition" =>
                LET t == caller[c].trace
                IN  /\ \A k \in SpeedQueries(t) : k > 1 /\ t[k - 1] = ScanDownCommand
                    /\ \A k \in Stops(t) : \A j \in Downs(t) :
                          j < k => \E q \in SpeedQueries(t) : j < q /\ q < k
                    /\ caller[c].outcome = "returned" =>
                          /\ Cardinality(SpeedQueries(t)) = 1
                          /\ SubSeq(t, Len(t) - 2, Len(t))
                                = <<ScanDownCommand, ScanSpeedCommand, ScanStopCommand>>)
    /\ [][\A c \in callers :
            caller[c].op = "set_xyposition" /\ caller[c].pc = "r_read"
            /\ caller'[c].pc # "r_read"
                => /\ controls[ScanGeometryControl] = MovedGeometry(caller[c].args)
                   /\ slot = "" /\ pending = <<>>
                   /\ caller'[c].pc = "sleep"
                   /\ caller'[c].wake = now + SleepTicks(controls[ScanSpeedControl])]_vars

\* a move has returned: it asked the scan speed after the scan-down, slept
\* for the line time of a device whose speed is not zero and stopped the scan
C32_Witness ==
    \E c \in callers :
        /\ caller[c].op = "set_xyposition"
        /\ caller[c].outcome = "returned"
        /\ ~caller[c].args.forced
        /\ caller[c].trace[5] = ScanDownCommand
        /\ caller[c].trace[6] = ScanSpeedCommand
        /\ caller[c].response = MaxSpeed
        /\ now = SleepTicks(MaxSpeed)

AbsoluteRampOps == RampOps \ RelativeRampOps

SetpointCall(f) == f.op = "set_setpoint_FPGA"

\* C35: set_setpoint_FPGA reads the register 'fb.p.params' and writes it back
\* with the field setPoint changed to the scaled setpoint: every other
\* field is written with the value it had when the register was read, and
\* the call writes no other register and nothing to the mailbox.
C35_OnlySetPoint ==
    /\ [](\A c \in callers : SetpointCall(caller[c]) =>
            /\ caller[c].trace = <<>>
            /\ \A k \in 1..Len(caller[c].regwrites) :
                    caller[c].regwrites[k][2] = "fb.p.params")
    /\ [][\A c \in callers :
            SetpointCall(caller[c]) /\ caller[c].pc = "reg" /\ caller'[c] # caller[c] =>
                /\ regs'["lia.exc.dds.amplitude"] = regs["lia.exc.dds.amplitude"]
                /\ slot' = slot
                /\ pending' = pending
                /\ caller[c].ip = 1 => regs' = regs
                /\ caller[c].ip = 2 =>
                        /\ regs'["fb.p.params"].other = caller[c].local.params.other
                        /\ regs'["fb.p.params"].setPoint =
                               ScaleSetpoint(caller[c].args.set_point_val)
                        /\ DOMAIN regs'["fb.p.params"] = DOMAIN caller[c].local.params
                        /\ Finished(caller'[c])]_vars

\* a call has returned that read the cluster with another field changed and
\* a setpoint of 0, and wrote the setpoint 0.02 V as 2 next to that field
C35_Witness ==
    \E c \in callers :
        /\ SetpointCall(caller[c])
        /\ caller[c].outcome = "returned"
        /\ caller[c].args.set_point_val = 20
        /\ caller[c].local.params = [setPoint |-> 0, other |-> 1]
        /\ regs["fb.p.params"] = [setPoint |-> 2, other |-> 1]
        /\ caller[c].regwrites = << <<2, "fb.p.params", 2>> >>

\* the calls of linear_ramp_setpoint_exc_amplitude
LinearRampCall(f) == f.op = "linear_ramp_setpoint_exc_amplitude"

\* the register writes of the loop, and those that follow the loop
Interpolated(e) == e[1] \in {6, 7}

FinalWrites(a) ==
    << <<10, "fb.p.params", ScaleSetpoint(a.final_setpoint)>>,
       <<11, "lia.exc.dds.amplitude", ScaleAmplitude(a.final_exc_amplitude)>> >>

\* the register writes, then the two updates through the mailbox
RampOrder(f) ==
    LET h == f.regwrites
    IN  /\ \A j, k \in 1..Len(h) : j < k /\ Interpolated(h[k]) => Interpolated(h[j])
        /\ f.pc = "reg" => f.trace = <<>>
        /\ f.trace # <<>> =>
                /\ Len(h) >= 2
                /\ <<h[Len(h) - 1], h[Len(h)]>> = FinalWrites(f.args)
        /\ f.args.duration_ms = 0 => \A k \in 1..Len(h) : ~Interpolated(h[k])
        /\ f.outcome = "returned" =>
                /\ f.trace = <<ExcAmplitudeCommand(FormatNumber(f.args.final_exc_amplitude)),
                               SetpointCommand(FormatNumber(f.args.final_setpoint))>>
                /\ regs["fb.p.params"].setPoint = ScaleSetpoint(f.args.final_setpoint)
                /\ regs["lia.exc.dds.amplitude"] = ScaleAmplitude(f.args.final_exc_amplitude)

\* C34: linear_ramp_setpoint_exc_amplitude leaves its loop at the first
\* reading of the clock at which the time elapsed has reached the duration,
\* and returns.  The last writes to the two registers are the scaled final
\* setpoint and the scaled final amplitude; they follow every interpolated
\* write and precede the two updates through the mailbox, which are all the
\* call writes there.  With a duration of 0 nothing interpolated is written.
C34_FinalValuesLast ==
    /\ [](\A c \in callers : LinearRampCall(caller[c]) => RampOrder(caller[c]))
    /\ [][\A c \in callers :
            /\ LinearRampCall(caller[c])
            /\ caller[c].pc = "reg"
            /\ caller[c].ip = 4
            /\ caller'[c] # caller[c]
            => caller'[c].ip =
                  IF now - caller[c].local.start_time >= caller[c].args.duration_ms \div 100
                  THEN 9 ELSE 5]_vars
    /\ (LinearRampCall(caller[1]) /\ caller[1].outcome = "running")
       ~> (LinearRampCall(caller[1]) /\ caller[1].outcome = "returned")

\* a ramp of 0.2 s from a setpoint of 0 and an amplitude of 0 to 0.02 V and
\* 1 V has returned: it wrote at the start, then half way, then the final
\* values
C34_Witness ==
    \E c \in callers :
        /\ LinearRampCall(caller[c])
        /\ caller[c].outcome = "returned"
        /\ caller[c].args.duration_ms = 200
        /\ caller[c].regwrites =
              << <<6, "fb.p.params", 0>>, <<7, "lia.exc.dds.amplitude", 0>>,
                 <<6, "fb.p.params", 1>>, <<7, "lia.exc.dds.amplitude", 1638>>,
                 <<10, "fb.p.params", 2>>, <<11, "lia.exc.dds.amplitude", 3276>> >>
        /\ caller[c].trace = <<"w_exc:Amplitude:1000", "w_zco:Setpoint:20">>

====
